---- MODULE Spec2Model ----
(***************************************************************************)
(* The hostPort allocation engine of hostport-operator                     *)
(* (internal/allocator/allocator.go) together with the cluster state it    *)
(* lists and the admissions that call it.                                  *)
(*                                                                         *)
(*   Spec        two webhook workers admit one pod each, concurrently; the *)
(*               admitted pods are persisted in the cluster state later.   *)
(*   SpecLive    Spec under fair scheduling of the calls.                  *)
(*   SpecEngine  two Allocate calls one after the other on one engine,     *)
(*               against a fixed cluster state, with the full set of       *)
(*               policies and protocols.                                   *)
(*   SpecPolicy  one Allocate call on a new engine, with every policy      *)
(*               under several configurations of range, ordinal, stride.   *)
(*   SpecHistory two Allocate calls one after the other while pods are     *)
(*               deleted and removed from the cluster state in between.    *)
(*   SpecWebhook two admissions one after the other through the handler   *)
(*               PodMutator.Handle: configuration from the annotations,    *)
(*               the call of Allocate, and the patch of the admitted pod.  *)
(***************************************************************************)
EXTENDS Integers, Sequences, FiniteSets, TLC

VARIABLES
    store,      \* cluster state: the set of pods the API server holds
    allocated,  \* Allocator.allocated: (node, protocol) -> set of used ports
    mu,         \* Allocator.mu: "" when free, else the worker that holds it
    pc,         \* per worker: position of its Allocate call
    arg,        \* per worker: the arguments of its Allocate call
    idx,        \* per worker: 1-based position of the next request (Go's i + 1)
    sticky,     \* per worker: stickyPorts returned by syncNodeState
    results,    \* per worker: the local results slice of the call
    err,        \* per worker: the error the call is about to return ("none": nil)
    ret         \* per worker: what the call returned to its caller

vars == <<store, allocated, mu, pc, arg, idx, sticky, results, err, ret>>

----------------------------------------------------------------------------
(* Bounds of the model.                                                    *)

\* number of ports of the widest configured range [BasePort, TopPort]
RangeLen == 3
\* longest batch of requests of one call
MaxBatch == 2

(* Program constants.                                                      *)

\* default hostport.io/min-port of the webhook
BasePort == 7000
\* largest value of Go's int32
MaxInt32 == 2147483647
MinInt32 == -MaxInt32 - 1

TopPort == BasePort + RangeLen - 1

Workers == {"w1", "w2"}
FirstWorker == "w1"
Namespaces == {"ns1", "ns2"}
Nodes == {"n1", "n2"}
\* nodeName of a pod that is not scheduled yet (pod.Spec.NodeName == "")
Unscheduled == ""
\* the key the engine uses for an unscheduled target
Pending == "pending"
NodeKeys == Nodes \cup {Pending}
\* corev1.Protocol values; "" is the unset protocol
ProtoKeys == {"TCP", "UDP", "SCTP"}
Protocols == ProtoKeys \cup {""}

PolicyDynamic == "Dynamic"
PolicyStatic == "Static"
PolicyPassthrough == "Passthrough"
PolicyIndex == "Index"

----------------------------------------------------------------------------
(* int32 arithmetic: Go wraps around on overflow.  No intermediate value   *)
(* leaves the int32 range.                                                 *)

Add32(a, b) ==
    IF a >= 0 /\ b > 0 /\ a > MaxInt32 - b
    THEN (a + MinInt32) + (b + MinInt32)
    ELSE IF a < 0 /\ b < 0 /\ a < MinInt32 - b
         THEN (a - MinInt32) + (b - MinInt32)
         ELSE a + b

\* the set of integers from lo to hi, where hi may be the largest int32
Interval(lo, hi) == IF hi < MaxInt32 THEN lo..hi ELSE (lo..(hi - 1)) \cup {hi}

\* the two 16-bit halves of the two's complement form of a
Lo16(a) == a % 65536
Hi16(a) == (a \div 65536) % 65536

\* the int32 whose halves are hi and lo
FromHalves(hi, lo) == (IF hi >= 32768 THEN hi - 65536 ELSE hi) * 65536 + lo

\* x * y modulo 2^16, for halves x and y
MulLo16(x, y) == ((x % 256) * y + 256 * ((x \div 256) * (y % 256))) % 65536

\* int32 multiplication, computed on the halves
Mul32(a, b) ==
    LET u == Lo16(a) * (Lo16(b) % 256)
        v == Lo16(a) * (Lo16(b) \div 256)
        w == u + 256 * (v % 256)
        hi == ((w \div 65536) + (v \div 256)
                  + MulLo16(Hi16(a), Lo16(b)) + MulLo16(Lo16(a), Hi16(b))) % 65536
    IN  FromHalves(hi, w % 65536)

----------------------------------------------------------------------------
(* Texts that hold numbers.  A text that the program parses or formats is  *)
(* the sequence of its characters.                                         *)

Digits == <<"0", "1", "2", "3", "4", "5", "6", "7", "8", "9">>

IsDigit(c) == \E d \in DOMAIN Digits : Digits[d] = c

DigitOf(c) == (CHOOSE d \in DOMAIN Digits : Digits[d] = c) - 1

\* the decimal digits of n >= 0
RECURSIVE Decimal(_)
Decimal(n) ==
    IF n < 10 THEN <<Digits[n + 1]>>
    ELSE Decimal(n \div 10) \o <<Digits[(n % 10) + 1]>>

\* fmt.Sprintf("%d", n) for an int32 n
Itoa(n) ==
    IF n >= 0 THEN Decimal(n)
    ELSE IF n = MinInt32 THEN <<"-">> \o Decimal(MaxInt32 \div 10) \o <<"8">>
    ELSE <<"-">> \o Decimal(0 - n)

\* a text that is no number
NotANumber == <<"a", "b", "c">>

\* the digits of a decimal text without its leading zeros
Significant(ds) ==
    LET nonZero == {k \in DOMAIN ds : ds[k] # 0}
    IN  IF nonZero = {} THEN << >>
        ELSE SubSeq(ds, CHOOSE k \in nonZero : \A l \in nonZero : k <= l, Len(ds))

\* ds <= es for two sequences of digits of the same length
DigitsLeq(ds, es) ==
    \A k \in DOMAIN ds : (\A l \in 1..(k - 1) : ds[l] = es[l]) => ds[k] <= es[k]

\* the digits of 2^63 - 1 and of 2^63, the bounds of Go's int on 64 bits
MaxInt64Digits == <<9, 2, 2, 3, 3, 7, 2, 0, 3, 6, 8, 5, 4, 7, 7, 5, 8, 0, 7>>
MinInt64Digits == <<9, 2, 2, 3, 3, 7, 2, 0, 3, 6, 8, 5, 4, 7, 7, 5, 8, 0, 8>>

\* strconv.Atoi: an optional sign and one or more decimal digits, the value
\* within 64 bits.  The integer is given by its sign and the digits of its
\* magnitude.
Atoi(s) ==
    LET signed == s # << >> /\ s[1] \in {"+", "-"}
        body == IF signed THEN Tail(s) ELSE s
        neg == signed /\ s[1] = "-"
        wellFormed == body # << >> /\ \A j \in DOMAIN body : IsDigit(body[j])
        mag == Significant([j \in DOMAIN body |-> DigitOf(body[j])])
        bound == IF neg THEN MinInt64Digits ELSE MaxInt64Digits
        inRange == \/ Len(mag) < Len(bound)
                   \/ Len(mag) = Len(bound) /\ DigitsLeq(mag, bound)
    IN  IF wellFormed /\ inRange THEN [ok |-> TRUE, neg |-> neg, mag |-> mag]
        ELSE [ok |-> FALSE, neg |-> FALSE, mag |-> << >>]

\* the two 16-bit halves of 10 * x + d modulo 2^32, for the halves h of x
Shift(h, d) ==
    LET lo == h[2] * 10 + d
    IN  <<(h[1] * 10 + lo \div 65536) % 65536, lo % 65536>>

\* the halves of the number with the digits ds modulo 2^32, from the halves h
\* of its first k - 1 digits (n names the halves after digit k)
RECURSIVE HalvesFrom(_, _, _)
HalvesFrom(ds, k, h) ==
    IF k > Len(ds) THEN h
    ELSE CHOOSE r \in {HalvesFrom(ds, k + 1, n) : n \in {Shift(h, ds[k])}} : TRUE

\* the low 32 bits, as an int32, of the number with the digits ds
Low32(ds) ==
    LET h == HalvesFrom(ds, 1, <<0, 0>>)
    IN  FromHalves(h[1], h[2])

\* the int32 of sign neg whose magnitude has the low 32 bits low
Narrow(neg, low) == IF neg /\ low # MinInt32 THEN 0 - low ELSE low

\* Go's conversion int32(i) of an int that Atoi returned (j names its value)
Int32(i) == CHOOSE r \in {Narrow(j.neg, Low32(j.mag)) : j \in {i}} : TRUE

----------------------------------------------------------------------------
(* The conflict map.                                                       *)

\* nodeName + "/" + protocol
Key(nodeName, protocol) == <<nodeName, protocol>>

AllKeys == {Key(n, p) : n \in NodeKeys, p \in ProtoKeys}

\* NewAllocator: no key is present, every lookup answers false
EmptyAllocated == [k \in AllKeys |-> {}]

\* a lookup that does not separate the protocols
IsPortInUseFlat(alloc, nodeName, protocol, port) ==
    \E p \in ProtoKeys : port \in alloc[Key(nodeName, p)]

\* lines 204-207
IsPortInUse(alloc, nodeName, protocol, port) ==
    port \in alloc[Key(nodeName, protocol)]

\* a mark that records nothing
MarkUsedNothing(alloc, nodeName, protocol, port) == alloc

\* lines 209-215
MarkUsed(alloc, nodeName, protocol, port) ==
    [alloc EXCEPT ![Key(nodeName, protocol)] = @ \cup {port}]

\* the loop of lines 196-200, from port p on; p++ wraps around in int32
RECURSIVE ScanFrom(_, _, _)
ScanFrom(used, p, max) ==
    IF p > max THEN [ok |-> FALSE, port |-> 0]
    ELSE IF p \notin used THEN [ok |-> TRUE, port |-> p]
    ELSE ScanFrom(used, IF p = MaxInt32 THEN MinInt32 ELSE p + 1, max)

\* a scan that answers the largest free port
FindFreePortLast(alloc, nodeName, protocol, min, max) ==
    LET free == {p \in Interval(min, max) : p \notin alloc[Key(nodeName, protocol)]}
    IN  IF free = {} THEN [ok |-> FALSE, port |-> 0]
        ELSE [ok |-> TRUE, port |-> CHOOSE p \in free : \A q \in free : q <= p]

\* lines 194-202
FindFreePort(alloc, nodeName, protocol, min, max) ==
    ScanFrom(alloc[Key(nodeName, protocol)], min, max)

----------------------------------------------------------------------------
(* syncNodeState: rebuild the conflict map of the target node from the     *)
(* listed pods and collect the sticky ports of a pod of the same name.     *)

\* nodeName of Allocate, lines 54-57
NodeNameOf(pod) == IF pod.node = Unscheduled THEN Pending ELSE pod.node

\* client.List(..., client.InNamespace(targetPod.Namespace))
List(pods, target) == {p \in pods : p.ns = target.ns}

\* a scan that keeps only the pods whose node is the map's node name
InScopeKnownOnly(p, nodeName) == p.node = nodeName

\* line 147: pods on other nodes are skipped when the node is known
InScope(p, nodeName) == nodeName = Pending \/ p.node = nodeName

IsSamePod(p, target) == p.name = target.name

\* lines 157-164: the annotations hostport.io/allocated-<name> that parse
StickyOfPod(p) ==
    [n \in {k \in DOMAIN p.ann : Atoi(p.ann[k]).ok} |-> Int32(Atoi(p.ann[n]))]

StickyPorts(listed, target, nodeName) ==
    LET same == {p \in listed : InScope(p, nodeName) /\ IsSamePod(p, target)}
    IN  IF same = {} THEN << >> ELSE StickyOfPod(CHOOSE p \in same : TRUE)

\* lines 178-181: the bucket of a declared port
BucketOf(protocol) == IF protocol = "" THEN "TCP" ELSE protocol

\* lines 175-189: the non-zero host ports a pod declares under a protocol
DeclaredPorts(p, protocol) ==
    {p.ports[j].hostPort : j \in {i \in DOMAIN p.ports :
        p.ports[i].hostPort # 0 /\ BucketOf(p.ports[i].protocol) = protocol}}

\* line 170: a pod of the target's name that is being deleted is not counted
Counted(p, target) == ~(IsSamePod(p, target) /\ p.deleting)

ScanPorts(listed, target, nodeName, protocol) ==
    UNION {DeclaredPorts(p, protocol) :
              p \in {q \in listed : InScope(q, nodeName) /\ Counted(q, target)}}

\* a scan that empties the TCP and UDP sets of every node
ClearedEverywhere(alloc, nodeName) ==
    [k \in DOMAIN alloc |-> IF k[2] \in {"TCP", "UDP"} THEN {} ELSE alloc[k]]

\* lines 137-138: only the TCP and UDP sets of the node are replaced
Cleared(alloc, nodeName) ==
    [k \in DOMAIN alloc |->
        IF k = Key(nodeName, "TCP") \/ k = Key(nodeName, "UDP") THEN {} ELSE alloc[k]]

SyncNodeState(alloc, listed, target, nodeName) ==
    [alloc  |-> [k \in DOMAIN alloc |->
                    IF k[1] = nodeName
                    THEN Cleared(alloc, nodeName)[k]
                             \cup ScanPorts(listed, target, nodeName, k[2])
                    ELSE alloc[k]],
     sticky |-> StickyPorts(listed, target, nodeName)]

----------------------------------------------------------------------------
(* Allocate: one request of the batch.                                     *)

\* a default of UDP for a request without protocol
ProtocolOfUDP(req) == IF req.protocol = "" THEN "UDP" ELSE req.protocol

\* lines 70-73
ProtocolOf(req) == IF req.protocol = "" THEN "TCP" ELSE req.protocol

\* the Index formula without the position within the batch
IndexPortNoPosition(minPort, index, stride, i) ==
    Add32(minPort, Mul32(index, stride))

\* line 88; i is Go's zero-based loop index
IndexPort(minPort, index, stride, i) ==
    Add32(Add32(minPort, Mul32(index, stride)), i)

\* the Dynamic policy without the sticky lookup
DynamicNoSticky(alloc, stk, nodeName, req, a) ==
    LET f == FindFreePort(alloc, nodeName, ProtocolOf(req), a.minPort, a.maxPort)
    IN  IF f.ok THEN [err |-> "none", port |-> f.port]
        ELSE [err |-> "RangeExhausted", port |-> 0]

\* the Dynamic policy reusing a recorded port without looking at the map
DynamicStickyUnchecked(alloc, stk, nodeName, req, a) ==
    IF req.name \in DOMAIN stk THEN [err |-> "none", port |-> stk[req.name]]
    ELSE DynamicNoSticky(alloc, stk, nodeName, req, a)

\* lines 93-110
Dynamic(alloc, stk, nodeName, req, a) ==
    IF req.name \in DOMAIN stk
          /\ ~IsPortInUse(alloc, nodeName, ProtocolOf(req), stk[req.name])
    THEN [err |-> "none", port |-> stk[req.name]]
    ELSE LET f == FindFreePort(alloc, nodeName, ProtocolOf(req), a.minPort, a.maxPort)
         IN  IF f.ok THEN [err |-> "none", port |-> f.port]
             ELSE [err |-> "RangeExhausted", port |-> 0]

\* variants of the switch: clamp applies the range check of the Index policy to
\* every policy, bounded keeps the range check of the Index policy, fallback
\* treats an unknown policy as Dynamic
DispatchVariant(alloc, stk, nodeName, req, i, a, clamp, bounded, fallback) ==
    LET ranged(port) ==
            IF port > a.maxPort \/ (clamp /\ port < a.minPort)
            THEN [err |-> "RangeExceeded", port |-> 0]
            ELSE [err |-> "none", port |-> port]
    IN  CASE req.policy = PolicyStatic ->
                IF req.hostPort = 0 THEN [err |-> "InvalidRequest", port |-> 0]
                ELSE IF clamp THEN ranged(req.hostPort)
                ELSE [err |-> "none", port |-> req.hostPort]
          [] req.policy = PolicyPassthrough ->
                IF clamp THEN ranged(req.containerPort)
                ELSE [err |-> "none", port |-> req.containerPort]
          [] req.policy = PolicyIndex ->
                LET port == Add32(Add32(a.minPort, Mul32(a.index, a.stride)), i)
                IN  IF bounded THEN ranged(port) ELSE [err |-> "none", port |-> port]
          [] req.policy = PolicyDynamic ->
                IF req.name \in DOMAIN stk
                      /\ stk[req.name] \notin alloc[<<nodeName, ProtocolOf(req)>>]
                THEN [err |-> "none", port |-> stk[req.name]]
                ELSE LET free == {p \in Interval(a.minPort, a.maxPort) :
                                    p \notin alloc[<<nodeName, ProtocolOf(req)>>]}
                     IN  IF free = {} THEN [err |-> "RangeExhausted", port |-> 0]
                         ELSE [err |-> "none",
                               port |-> CHOOSE p \in free : \A q \in free : p <= q]
          [] OTHER ->
                IF fallback
                THEN LET free == {p \in Interval(a.minPort, a.maxPort) :
                                    p \notin alloc[<<nodeName, ProtocolOf(req)>>]}
                     IN  IF free = {} THEN [err |-> "RangeExhausted", port |-> 0]
                         ELSE [err |-> "none",
                               port |-> CHOOSE p \in free : \A q \in free : p <= q]
                ELSE [err |-> "UnsupportedPolicy", port |-> 0]

\* a switch that holds every policy to [minPort, maxPort]
DispatchClamped(alloc, stk, nodeName, req, i, a) ==
    DispatchVariant(alloc, stk, nodeName, req, i, a, TRUE, TRUE, FALSE)

\* a switch without the range check of the Index policy
DispatchUnbounded(alloc, stk, nodeName, req, i, a) ==
    DispatchVariant(alloc, stk, nodeName, req, i, a, FALSE, FALSE, FALSE)

\* a switch that falls back to the Dynamic scan for an unknown policy
DispatchDefaulting(alloc, stk, nodeName, req, i, a) ==
    DispatchVariant(alloc, stk, nodeName, req, i, a, FALSE, TRUE, TRUE)

\* the switch of lines 75-114: the port the policy computes, or the error
Dispatch(alloc, stk, nodeName, req, i, a) ==
    CASE req.policy = PolicyStatic ->
            IF req.hostPort = 0 THEN [err |-> "InvalidRequest", port |-> 0]
            ELSE [err |-> "none", port |-> req.hostPort]
      [] req.policy = PolicyPassthrough ->
            [err |-> "none", port |-> req.containerPort]
      [] req.policy = PolicyIndex ->
            LET port == IndexPort(a.minPort, a.index, a.stride, i)
            IN  IF port > a.maxPort THEN [err |-> "RangeExceeded", port |-> 0]
                ELSE [err |-> "none", port |-> port]
      [] req.policy = PolicyDynamic -> Dynamic(alloc, stk, nodeName, req, a)
      [] OTHER -> [err |-> "UnsupportedPolicy", port |-> 0]

\* results[i] of lines 124-126
Assignment(req, port) ==
    [name |-> req.name, containerPort |-> req.containerPort, hostPort |-> port,
     protocol |-> ProtocolOf(req), policy |-> req.policy]

\* a loop body without the conflict check of lines 116-119
ProcessRequestNoCheck(alloc, stk, nodeName, req, i, a) ==
    LET d == Dispatch(alloc, stk, nodeName, req, i, a)
    IN  IF d.err # "none" THEN [err |-> d.err, alloc |-> alloc, out |-> << >>]
        ELSE [err |-> "none",
              alloc |-> MarkUsed(alloc, nodeName, ProtocolOf(req), d.port),
              out |-> <<Assignment(req, d.port)>>]

\* the body of the loop, lines 66-127: dispatch, conflict check, mark
ProcessRequest(alloc, stk, nodeName, req, i, a) ==
    LET d == Dispatch(alloc, stk, nodeName, req, i, a)
    IN  IF d.err # "none" THEN [err |-> d.err, alloc |-> alloc, out |-> << >>]
        ELSE IF IsPortInUse(alloc, nodeName, ProtocolOf(req), d.port)
        THEN [err |-> "PortConflict", alloc |-> alloc, out |-> << >>]
        ELSE [err |-> "none",
              alloc |-> MarkUsed(alloc, nodeName, ProtocolOf(req), d.port),
              out |-> <<Assignment(req, d.port)>>]

\* a return that hands back the assignments made so far also on failure
ReturnedPartial(e, res) == [err |-> e, results |-> res]

\* what Allocate hands back, lines 62, 79, 90, 108, 113, 118 and 129
Returned(e, res) == [err |-> e, results |-> IF e = "none" THEN res ELSE << >>]

\* the whole loop from request i on, as one function
RECURSIVE AllocLoop(_, _, _, _, _, _)
AllocLoop(alloc, stk, nodeName, a, i, res) ==
    IF i > Len(a.reqs) THEN [alloc |-> alloc, ret |-> Returned("none", res)]
    ELSE LET r == ProcessRequest(alloc, stk, nodeName, a.reqs[i], i - 1, a)
         IN  IF r.err # "none"
             THEN [alloc |-> r.alloc, ret |-> Returned(r.err, res)]
             ELSE AllocLoop(r.alloc, stk, nodeName, a, i + 1, res \o r.out)

\* Allocate with a scan that succeeds, as one function of the engine's map,
\* the cluster state and the arguments
Allocate(alloc, pods, a) ==
    LET s == SyncNodeState(alloc, List(pods, a.pod), a.pod, NodeNameOf(a.pod))
    IN  AllocLoop(s.alloc, s.sticky, NodeNameOf(a.pod), a, 1, << >>)

----------------------------------------------------------------------------
(* The cluster state and the inputs of the model.                          *)

ContainerPort(name, containerPort, hostPort, protocol) ==
    [name |-> name, containerPort |-> containerPort, hostPort |-> hostPort,
     protocol |-> protocol]

Pod(ns, name, node, deleting, ports, ann) ==
    [ns |-> ns, name |-> name, node |-> node, deleting |-> deleting,
     ports |-> ports, ann |-> ann]

\* the previous incarnation of pod x: terminating, it recorded BasePort + 1
\* for its port p, and one annotation that is no number
OldX(node) ==
    Pod("ns1", "x", node, TRUE,
        <<ContainerPort("p", BasePort + 1, BasePort + 1, "TCP")>>,
        [n \in {"p", "r"} |-> IF n = "p" THEN Itoa(BasePort + 1) ELSE NotANumber])

\* the same pod while it is not being deleted
LiveX == [OldX("n1") EXCEPT !.deleting = FALSE]

\* a pod on n1 that holds BasePort (protocol unset) and BasePort + 1 (TCP)
PodZ ==
    Pod("ns1", "z", "n1", FALSE,
        <<ContainerPort("a", 8080, BasePort, ""),
          ContainerPort("b", 8081, BasePort + 1, "TCP"),
          ContainerPort("c", 8082, 0, "UDP")>>, << >>)

\* a pod of the same namespace on the other node
PodW ==
    Pod("ns1", "w", "n2", FALSE, <<ContainerPort("a", 8080, BasePort, "TCP")>>, << >>)

\* a pod of the other namespace on n1
PodV ==
    Pod("ns2", "v", "n1", FALSE, <<ContainerPort("a", 8080, BasePort, "TCP")>>, << >>)

\* a pod on n1 that holds BasePort under SCTP and under UDP, and BasePort + 1
\* under UDP
PodS ==
    Pod("ns1", "s", "n1", FALSE,
        <<ContainerPort("a", 8080, BasePort, "SCTP"),
          ContainerPort("b", 8081, BasePort + 1, "UDP"),
          ContainerPort("c", 8082, BasePort, "UDP")>>, << >>)

\* the cluster states SpecHistory starts from
HistoryStores == {{}, {PodZ}, {PodS}, {OldX("n1")}}

\* the cluster states SpecEngine starts from
EngineStores ==
    {{}, {OldX("n1")}, {OldX("n2")}, {LiveX}, {PodZ}, {PodZ, OldX("n2")}, {PodW, PodV}}

\* the decimal text of 2^32 + 7000
WideText == <<"4", "2", "9", "4", "9", "7", "4", "2", "9", "6">>

\* a previous incarnation of pod x whose annotation for p does not fit int32
WideX ==
    Pod("ns1", "x", "n1", TRUE,
        <<ContainerPort("p", BasePort + 1, BasePort + 1, "TCP")>>,
        [n \in {"p"} |-> WideText])

\* the cluster states SpecPolicy starts from
PolicyStores == EngineStores \cup {{WideX}}

\* the cluster states Spec starts from
AdmissionStores == {{}, {OldX("n1")}, {PodW}}

Target(ns, name, node) == [ns |-> ns, name |-> name, node |-> node]

PortRequest(name, containerPort, hostPort, protocol, policy) ==
    [name |-> name, containerPort |-> containerPort, hostPort |-> hostPort,
     protocol |-> protocol, policy |-> policy]

NameAt(j) == IF j = 1 THEN "p" ELSE IF j = 2 THEN "q" ELSE "r"

\* the kinds of batch the model issues; Shape is request j of a batch of n
Families ==
    {"dynamic", "dynamic-udp", "dynamic-sctp", "index", "pass-mixed", "pass-same",
     "static", "static-sctp", "unsupported", "static-out", "no-policy"}

Shape(f, j, n) ==
    CASE f = "dynamic" -> PortRequest(NameAt(j), 8080, 0, "", PolicyDynamic)
      [] f = "dynamic-udp" -> PortRequest(NameAt(j), 8080, 0, "UDP", PolicyDynamic)
      [] f = "dynamic-sctp" -> PortRequest(NameAt(j), 8080, 0, "SCTP", PolicyDynamic)
      [] f = "index" -> PortRequest(NameAt(j), 8080, 0, "TCP", PolicyIndex)
      [] f = "pass-mixed" ->
            PortRequest(NameAt(j), BasePort, 0, IF j % 2 = 1 THEN "TCP" ELSE "UDP",
                        PolicyPassthrough)
      [] f = "pass-same" -> PortRequest(NameAt(j), BasePort, 0, "UDP", PolicyPassthrough)
      [] f = "static" ->
            PortRequest(NameAt(j), 8080, IF j = 1 THEN BasePort ELSE 0, "", PolicyStatic)
      [] f = "static-sctp" ->
            PortRequest(NameAt(j), 8080, IF j = 1 THEN BasePort ELSE 0, "SCTP",
                        PolicyStatic)
      [] f = "unsupported" ->
            PortRequest(NameAt(j), 8080, 0, "TCP",
                        IF j = n THEN "Invalid" ELSE PolicyPassthrough)
      [] f = "static-out" -> PortRequest(NameAt(j), 8080, 9000 + j, "", PolicyStatic)
      [] f = "no-policy" -> PortRequest(NameAt(j), 8080, 0, "", "")

Batch(f, n) == [j \in 1..n |-> Shape(f, j, n)]

\* a stride whose product with ordinal 4 is 2^32
WrapStride == (MaxInt32 \div 2) + 1

\* (ordinal, stride) of the Index calls
IndexParams ==
    {<<o, s>> : o \in {0, 1}, s \in {1, 2}} \cup {<<0, WrapStride>>, <<4, WrapStride>>}

\* (ordinal, stride) of the Index calls of SpecPolicy with a stride or an
\* ordinal below zero
NegativeIndexParams == {<<1, 0 - 1>>, <<0 - 1, 2>>, <<0 - 1, 0 - 1>>}

\* (minPort, maxPort) of the Dynamic calls
DynamicRanges == {<<BasePort, TopPort>>, <<BasePort, BasePort>>}

Args(pod, reqs, minPort, maxPort, index, stride) ==
    [pod |-> pod, reqs |-> reqs, minPort |-> minPort, maxPort |-> maxPort,
     index |-> index, stride |-> stride]

EngineTargets ==
    {Target("ns1", "x", "n1"), Target("ns1", "y", Unscheduled)}

EngineInputs ==
    {Args(t, Batch(f, n), r[1], r[2], 0, 10) :
        t \in EngineTargets, f \in {"dynamic", "dynamic-udp", "dynamic-sctp"},
        n \in 1..MaxBatch, r \in DynamicRanges}
    \cup
    {Args(t, Batch("index", n), BasePort, TopPort, os[1], os[2]) :
        t \in EngineTargets, n \in 1..MaxBatch, os \in IndexParams}
    \cup
    {Args(t, Batch(f, n), BasePort, TopPort, 0, 10) :
        t \in EngineTargets, n \in 1..MaxBatch,
        f \in {"pass-mixed", "pass-same", "static", "static-sctp", "unsupported"}}

\* (minPort, maxPort, ordinal, stride) of the Static and Passthrough calls of
\* SpecPolicy; BasePort lies outside the second range
PolicyConfigs == {<<BasePort, TopPort, 0, 10>>, <<BasePort + 1, BasePort + 1, 3, 1>>}

\* the calls of SpecPolicy: those of SpecEngine, the Index call of
\* TestAllocator_IndexPolicy_ExceedsMaxPort, Static, Passthrough and
\* unknown-policy batches under both configurations, Index calls with a
\* negative stride or ordinal, Dynamic calls for a replacement of pod x that
\* is not scheduled yet, and Dynamic calls whose range ends at the largest
\* int32
PolicyInputs ==
    EngineInputs
    \cup
    {Args(Target("ns1", "x", Unscheduled), Batch("dynamic", n), BasePort, TopPort, 0, 10) :
        n \in 1..MaxBatch}
    \cup
    {Args(Target("ns1", "x", "n1"), Batch("dynamic", n), MaxInt32, MaxInt32, 0, 10) :
        n \in 1..MaxBatch}
    \cup
    {Args(t, Batch("index", n), BasePort, BasePort + 999, 100, 10) :
        t \in EngineTargets, n \in 1..MaxBatch}
    \cup
    {Args(Target("ns1", "x", "n1"), Batch("index", n), BasePort, TopPort, os[1], os[2]) :
        n \in 1..MaxBatch, os \in NegativeIndexParams}
    \cup
    {Args(t, Batch(f, n), c[1], c[2], c[3], c[4]) :
        t \in EngineTargets, n \in 1..MaxBatch, c \in PolicyConfigs,
        f \in {"pass-mixed", "pass-same", "static", "static-sctp", "static-out",
               "unsupported", "no-policy"}}

\* the calls of SpecHistory: one family per policy and protocol, range
\* [BasePort, TopPort], ordinal 0, stride 1
HistoryInputs ==
    {Args(t, Batch(f, n), BasePort, TopPort, 0, 1) :
        t \in EngineTargets, n \in 1..MaxBatch,
        f \in {"dynamic", "dynamic-sctp", "static", "static-sctp", "pass-same", "index"}}

AdmissionTargets ==
    {Target("ns1", "x", "n1"), Target("ns1", "y", "n1"), Target("ns2", "y", "n1"),
     Target("ns1", "y", "n2")}

AdmissionInputs ==
    {Args(t, Batch("dynamic", 1), BasePort, TopPort, 0, 10) : t \in AdmissionTargets}
    \cup
    {Args(Target("ns1", "x", "n1"), Batch("dynamic", MaxBatch), BasePort, BasePort, 0, 10)}

NoArgs == Args(Target("", "", Unscheduled), << >>, 0, 0, 0, 0)
NoReturn == [err |-> "none", results |-> << >>]

----------------------------------------------------------------------------
(* The state machine.                                                      *)

InitWith(stores) ==
    /\ store \in stores
    /\ allocated = EmptyAllocated
    /\ mu = ""
    /\ pc = [w \in Workers |-> "idle"]
    /\ arg = [w \in Workers |-> NoArgs]
    /\ idx = [w \in Workers |-> 1]
    /\ sticky = [w \in Workers |-> << >>]
    /\ results = [w \in Workers |-> << >>]
    /\ err = [w \in Workers |-> "none"]
    /\ ret = [w \in Workers |-> NoReturn]

Init == InitWith(AdmissionStores)

InitEngine == InitWith(EngineStores)

\* a caller invokes Allocate with arguments a; the call next takes the lock
Call(w, a) ==
    /\ pc[w] = "idle"
    /\ pc' = [pc EXCEPT ![w] = "lock"]
    /\ arg' = [arg EXCEPT ![w] = a]
    /\ UNCHANGED <<store, allocated, mu, idx, sticky, results, err, ret>>

\* a lock that never blocks
CanLockAlways(m) == TRUE

\* sync.Mutex: Lock returns only while no one holds the mutex
CanLock(m) == m = ""

\* line 51: a.mu.Lock()
Acquire(w) ==
    /\ pc[w] = "lock"
    /\ CanLock(mu)
    /\ mu' = w
    /\ pc' = [pc EXCEPT ![w] = "sync"]
    /\ UNCHANGED <<store, allocated, arg, idx, sticky, results, err, ret>>

\* lines 54-65: syncNodeState with a List that succeeds
Sync(w) ==
    /\ pc[w] = "sync"
    /\ LET a == arg[w]
           s == SyncNodeState(allocated, List(store, a.pod), a.pod, NodeNameOf(a.pod))
       IN  /\ allocated' = s.alloc
           /\ sticky' = [sticky EXCEPT ![w] = s.sticky]
           /\ pc' = [pc EXCEPT ![w] = IF Len(a.reqs) = 0 THEN "return" ELSE "loop"]
    /\ idx' = [idx EXCEPT ![w] = 1]
    /\ results' = [results EXCEPT ![w] = << >>]
    /\ UNCHANGED <<store, mu, arg, err, ret>>

\* a failed scan after which the loop over the requests still runs
SyncFailDispatching(w) ==
    /\ pc[w] = "sync"
    /\ allocated' = Cleared(allocated, NodeNameOf(arg[w].pod))
    /\ err' = [err EXCEPT ![w] = "StateUnavailable"]
    /\ pc' = [pc EXCEPT ![w] = IF Len(arg[w].reqs) = 0 THEN "return" ELSE "loop"]
    /\ UNCHANGED <<store, mu, arg, idx, sticky, results, ret>>

\* lines 60-63 and 137-143: the List fails after the node's sets were replaced
SyncFail(w) ==
    /\ pc[w] = "sync"
    /\ allocated' = Cleared(allocated, NodeNameOf(arg[w].pod))
    /\ err' = [err EXCEPT ![w] = "StateUnavailable"]
    /\ pc' = [pc EXCEPT ![w] = "return"]
    /\ UNCHANGED <<store, mu, arg, idx, sticky, results, ret>>

\* a loop that goes on with the next request after a failing one
StepPastFailure(w) ==
    /\ pc[w] = "loop"
    /\ LET a == arg[w]
           i == idx[w]
           r == ProcessRequest(allocated, sticky[w], NodeNameOf(a.pod), a.reqs[i],
                               i - 1, a)
       IN  /\ allocated' = r.alloc
           /\ err' = [err EXCEPT ![w] = r.err]
           /\ results' = [results EXCEPT ![w] = @ \o r.out]
           /\ idx' = [idx EXCEPT ![w] = i + 1]
           /\ pc' = [pc EXCEPT ![w] = IF i = Len(a.reqs) THEN "return" ELSE "loop"]
    /\ UNCHANGED <<store, mu, arg, sticky, ret>>

\* lines 66-127: one iteration of the loop
Step(w) ==
    /\ pc[w] = "loop"
    /\ LET a == arg[w]
           i == idx[w]
           r == ProcessRequest(allocated, sticky[w], NodeNameOf(a.pod), a.reqs[i],
                               i - 1, a)
       IN  /\ allocated' = r.alloc
           /\ err' = [err EXCEPT ![w] = r.err]
           /\ results' = [results EXCEPT ![w] = @ \o r.out]
           /\ idx' = [idx EXCEPT ![w] = IF r.err = "none" THEN i + 1 ELSE i]
           /\ pc' = [pc EXCEPT ![w] =
                        IF r.err # "none" \/ i = Len(a.reqs) THEN "return" ELSE "loop"]
    /\ UNCHANGED <<store, mu, arg, sticky, ret>>

\* a return without the deferred Unlock
ReturnKeepingLock(w) ==
    /\ pc[w] = "return"
    /\ ret' = [ret EXCEPT ![w] = Returned(err[w], results[w])]
    /\ pc' = [pc EXCEPT ![w] = "done"]
    /\ UNCHANGED <<store, allocated, mu, arg, idx, sticky, results, err>>

\* the return statement and the deferred a.mu.Unlock() of line 52
Return(w) ==
    /\ pc[w] = "return"
    /\ ret' = [ret EXCEPT ![w] = Returned(err[w], results[w])]
    /\ mu' = ""
    /\ pc' = [pc EXCEPT ![w] = "done"]
    /\ UNCHANGED <<store, allocated, arg, idx, sticky, results, err>>

\* applyToSpec, lines 150-162: every port that matches the assignment by name,
\* or is unnamed with the assignment's containerPort, takes its host port
ApplyToSpec(ports, a) ==
    [j \in DOMAIN ports |->
        IF ports[j].name = a.name
              \/ (ports[j].name = "" /\ ports[j].containerPort = a.containerPort)
        THEN [ports[j] EXCEPT !.hostPort = a.hostPort, !.containerPort = a.hostPort]
        ELSE ports[j]]

\* line 137: the annotation hostport.io/allocated-<name> of one assignment
Annotate(ann, a) ==
    [n \in DOMAIN ann \cup {a.name} |-> IF n = a.name THEN Itoa(a.hostPort) ELSE ann[n]]

\* the loop of lines 135-138 from assignment k on
RECURSIVE MutateFrom(_, _, _)
MutateFrom(pod, assigned, k) ==
    IF k > Len(assigned) THEN pod
    ELSE MutateFrom([pod EXCEPT !.ports = ApplyToSpec(pod.ports, assigned[k]),
                                !.ann = Annotate(pod.ann, assigned[k])],
                    assigned, k + 1)

\* the pod of an admission of Spec as the handler received it: one container
\* port per request, none with a host port
RequestedPod(target, reqs) ==
    Pod(target.ns, target.name, target.node, FALSE,
        [j \in DOMAIN reqs |->
            ContainerPort(reqs[j].name, reqs[j].containerPort, 0, reqs[j].protocol)],
        << >>)

\* lines 131-138: the pod the webhook admits after a successful call, patched
\* assignment by assignment
AdmittedPod(target, reqs, res) == MutateFrom(RequestedPod(target, reqs), res, 1)

Exists(pods, target) == \E p \in pods : p.ns = target.ns /\ p.name = target.name

\* a handler that answers with a patch whatever Allocate returned
ResponseAllowing(target, reqs, r) ==
    [allowed |-> TRUE, patch |-> {AdmittedPod(target, reqs, r.results)}]

\* PodMutator.Handle after the call of Allocate: Denied without a patch on an
\* error, else the patch that holds the mutated pod
Response(target, reqs, r) ==
    IF r.err # "none" THEN [allowed |-> FALSE, patch |-> {}]
    ELSE [allowed |-> TRUE, patch |-> {AdmittedPod(target, reqs, r.results)}]

\* the API server stores the pod of an allowed admission, with the patch
\* applied; names are unique in a namespace
Persist(w) ==
    /\ pc[w] = "done"
    /\ Response(arg[w].pod, arg[w].reqs, ret[w]).allowed
    /\ ~Exists(store, arg[w].pod)
    /\ store' = store \cup Response(arg[w].pod, arg[w].reqs, ret[w]).patch
    /\ pc' = [pc EXCEPT ![w] = "stored"]
    /\ UNCHANGED <<allocated, mu, arg, idx, sticky, results, err, ret>>

\* the API server rejects the pod of a denied admission
Deny(w) ==
    /\ pc[w] = "done"
    /\ ~Response(arg[w].pod, arg[w].reqs, ret[w]).allowed
    /\ pc' = [pc EXCEPT ![w] = "denied"]
    /\ UNCHANGED <<store, allocated, mu, arg, idx, sticky, results, err, ret>>

\* a pod is marked for deletion (DeletionTimestamp is set)
MarkDeleted(p) ==
    /\ p \in store
    /\ ~p.deleting
    /\ store' = (store \ {p}) \cup {[p EXCEPT !.deleting = TRUE]}
    /\ UNCHANGED <<allocated, mu, pc, arg, idx, sticky, results, err, ret>>

\* a terminating pod is removed from the cluster state
Remove(p) ==
    /\ p \in store
    /\ p.deleting
    /\ store' = store \ {p}
    /\ UNCHANGED <<allocated, mu, pc, arg, idx, sticky, results, err, ret>>

Next ==
    \/ \E w \in Workers : \E a \in AdmissionInputs : Call(w, a)
    \/ \E w \in Workers : Acquire(w)
    \/ \E w \in Workers : Sync(w)
    \/ \E w \in Workers : SyncFail(w)
    \/ \E w \in Workers : Step(w)
    \/ \E w \in Workers : Return(w)
    \/ \E w \in Workers : Persist(w)
    \/ \E w \in Workers : Deny(w)
    \/ \E p \in store : MarkDeleted(p)
    \/ \E p \in store : Remove(p)

Spec == Init /\ [][Next]_vars

\* scheduling of the calls: a goroutine that can run does run, the List of the
\* scan returns (with the pods or with an error), and a goroutine waiting in
\* Lock gets the mutex if it is free again and again (sync.Mutex hands the
\* mutex to a starving waiter)
Fairness ==
    \A w \in Workers :
        /\ SF_vars(Acquire(w))
        /\ WF_vars(Sync(w) \/ SyncFail(w))
        /\ WF_vars(Step(w))
        /\ WF_vars(Return(w))

\* Spec under fair scheduling
SpecLive == Init /\ [][Next]_vars /\ Fairness

\* the second call starts when the first has returned
InTurn(w) == w = FirstWorker \/ pc[FirstWorker] = "done"

NextEngine ==
    \/ \E w \in Workers : \E a \in EngineInputs : InTurn(w) /\ Call(w, a)
    \/ \E w \in Workers : Acquire(w)
    \/ \E w \in Workers : Sync(w)
    \/ \E w \in Workers : SyncFail(w)
    \/ \E w \in Workers : Step(w)
    \/ \E w \in Workers : Return(w)

SpecEngine == InitEngine /\ [][NextEngine]_vars

\* one Allocate call on a new engine
NextPolicy ==
    \/ \E a \in PolicyInputs : Call(FirstWorker, a)
    \/ Acquire(FirstWorker)
    \/ Sync(FirstWorker)
    \/ SyncFail(FirstWorker)
    \/ Step(FirstWorker)
    \/ Return(FirstWorker)

SpecPolicy == InitWith(PolicyStores) /\ [][NextPolicy]_vars

\* no call is in progress
Quiet == \A w \in Workers : pc[w] \in {"idle", "done"}

\* two calls one after the other on one engine; pods are deleted and removed
\* before, between and after the calls
NextHistory ==
    \/ \E w \in Workers : \E a \in HistoryInputs : InTurn(w) /\ Call(w, a)
    \/ \E w \in Workers : Acquire(w)
    \/ \E w \in Workers : Sync(w)
    \/ \E w \in Workers : SyncFail(w)
    \/ \E w \in Workers : Step(w)
    \/ \E w \in Workers : Return(w)
    \/ \E p \in store : Quiet /\ MarkDeleted(p)
    \/ \E p \in store : Quiet /\ Remove(p)

SpecHistory == InitWith(HistoryStores) /\ [][NextHistory]_vars

----------------------------------------------------------------------------
(* PodMutator.Handle: the admission handler in front of the engine.  A pod *)
(* of an admission request carries, besides the fields of a stored pod,    *)
(* hostNetwork and the hostport.io annotations that configure the handler  *)
(* (cfg); an annotation that may be absent is a sequence of length 0 or 1. *)
(* The name and the generateName of such a pod are texts, because the      *)
(* handler parses them.                                                    *)

\* default hostport.io/max-port and hostport.io/stride of the handler
DefaultMaxPort == 8000
DefaultStride == 10

Config(enabled, policy, minPort, maxPort, stride) ==
    [enabled |-> enabled, policy |-> policy, minPort |-> minPort,
     maxPort |-> maxPort, stride |-> stride]

RequestPod(ns, name, generateName, node, hostNetwork, cfg, ports) ==
    [ns |-> ns, name |-> name, generateName |-> generateName, node |-> node,
     deleting |-> FALSE, ports |-> ports, ann |-> << >>, cfg |-> cfg,
     hostNetwork |-> hostNetwork]

\* lines 54-57: the annotation must be exactly "true"
Enabled(pod) == pod.cfg.enabled = "true"

\* lines 60-79: a numeric annotation that is present and parses, else the default
ParseInt32(annotation, default) ==
    IF annotation # << >> /\ Atoi(annotation[1]).ok THEN Int32(Atoi(annotation[1]))
    ELSE default

\* lines 81-84
PolicyOfPod(pod) == IF pod.cfg.policy # << >> THEN pod.cfg.policy[1] ELSE PolicyIndex

\* strings.LastIndex(s, c) counted from 1: 0 when c does not occur in s
LastIndex(s, c) ==
    LET at == {k \in DOMAIN s : s[k] = c}
    IN IF at = {} THEN 0 ELSE CHOOSE k \in at : \A l \in at : l <= k

\* lines 87-96: the number after the last dash of the name, or of
\* generateName when the pod has no name yet, narrowed to int32; else 0
OrdinalOf(pod) ==
    LET name == IF pod.name = << >> THEN pod.generateName ELSE pod.name
        lastDash == LastIndex(name, "-")
        o == Atoi(SubSeq(name, lastDash + 1, Len(name)))
    IN IF lastDash # 0 /\ o.ok THEN Int32(o) ELSE 0

\* line 102: the container ports that need a host port
NeedsPort(port) == port.hostPort = 0 /\ port.containerPort # 0

\* a handler that asks for the containerPort of the port as its host port
RECURSIVE CollectFromDeclaring(_, _, _)
CollectFromDeclaring(ports, policy, j) ==
    IF j > Len(ports) THEN << >>
    ELSE (IF NeedsPort(ports[j])
          THEN <<PortRequest(ports[j].name, ports[j].containerPort,
                             ports[j].containerPort, ports[j].protocol, policy)>>
          ELSE << >>) \o CollectFromDeclaring(ports, policy, j + 1)

\* lines 99-111: one request per port that needs a host port, in pod order
RECURSIVE CollectFrom(_, _, _)
CollectFrom(ports, policy, j) ==
    IF j > Len(ports) THEN << >>
    ELSE (IF NeedsPort(ports[j])
          THEN <<PortRequest(ports[j].name, ports[j].containerPort, 0,
                             ports[j].protocol, policy)>>
          ELSE << >>) \o CollectFrom(ports, policy, j + 1)

CollectRequests(pod) == CollectFrom(pod.ports, PolicyOfPod(pod), 1)

\* a handler that calls Allocate for every pod
SkipsNever(pod) == FALSE

\* lines 54-57 and 113-116: the pod is admitted as it is, without a call
Skips(pod) == ~Enabled(pod) \/ CollectRequests(pod) = << >>

\* line 119: the arguments of the call of Allocate
HandleArgs(pod) ==
    Args(pod, CollectRequests(pod),
         ParseInt32(pod.cfg.minPort, BasePort),
         ParseInt32(pod.cfg.maxPort, DefaultMaxPort),
         OrdinalOf(pod),
         ParseInt32(pod.cfg.stride, DefaultStride))

\* lines 126-138: the mutated pod of the patch
Mutate(pod, assigned) ==
    MutateFrom([pod EXCEPT !.hostNetwork = TRUE], assigned, 1)

\* the pods of the admission requests of SpecWebhook
Unnamed(containerPort, hostPort) == ContainerPort("", containerPort, hostPort, "")

DynamicConfig == Config("true", <<PolicyDynamic>>, << >>, << >>, << >>)

\* pod names as texts
Web == <<"w", "e", "b">>
Api == <<"a", "p", "i">>
App(suffix) == <<"a", "p", "p", "-">> \o suffix
WideOrdinal == <<"4", "2", "9", "4", "9", "6", "7", "2", "9", "7">>
IndexConfig == Config("true", << >>, << >>, << >>, << >>)

WebhookPods ==
    {\* not enabled: no annotation, or another value than "true"
     RequestPod("ns1", Web, << >>, "n1", FALSE, Config("", << >>, << >>, << >>, << >>),
                <<ContainerPort("p", 8080, 0, "")>>),
     RequestPod("ns1", Web, << >>, "n1", FALSE,
                Config("True", <<PolicyDynamic>>, << >>, << >>, << >>),
                <<ContainerPort("p", 8080, 0, "")>>),
     \* enabled, no port at all (TestPodMutator_Handle_NoPorts)
     RequestPod("ns1", Web, << >>, "n1", FALSE, IndexConfig, << >>),
     \* enabled, every port declares its host port or has no containerPort
     RequestPod("ns1", Api, << >>, "n1", TRUE, DynamicConfig,
                <<ContainerPort("p", 8080, BasePort, "TCP"),
                  ContainerPort("q", 0, 0, "TCP")>>),
     \* enabled, Dynamic, one named port
     RequestPod("ns1", App(Itoa(0)), << >>, "n1", FALSE, DynamicConfig,
                <<ContainerPort("p", 8080, 0, "")>>),
     \* enabled, Dynamic, unnamed ports
     RequestPod("ns1", App(Itoa(0)), << >>, "n1", FALSE, DynamicConfig,
                [j \in 1..MaxBatch |-> Unnamed(8080 + j, 0)]),
     \* enabled, Dynamic, a port that needs a host port beside one that declares it
     RequestPod("ns1", App(Itoa(0)), << >>, "n1", FALSE, DynamicConfig,
                <<ContainerPort("p", 8080, BasePort, "TCP"),
                  ContainerPort("q", 8081, 0, "TCP")>>),
     \* enabled, default policy (Index), ordinal 1, named ports, stride given
     RequestPod("ns1", App(Itoa(1)), << >>, Unscheduled, FALSE,
                Config("true", << >>, <<NotANumber>>, <<Itoa(BasePort + 2 * MaxBatch)>>,
                       <<Itoa(MaxBatch)>>),
                [j \in 1..MaxBatch |-> ContainerPort(NameAt(j), 8080, 0, "UDP")]),
     \* enabled, Static, one port that needs a host port
     RequestPod("ns1", App(Itoa(0)), << >>, "n1", FALSE,
                Config("true", <<PolicyStatic>>, << >>, << >>, << >>),
                <<ContainerPort("p", 8080, 0, "TCP")>>),
     \* enabled, Static, a port that needs a host port beside one that declares it
     RequestPod("ns1", App(Itoa(1)), << >>, "n1", FALSE,
                Config("true", <<PolicyStatic>>, << >>, << >>, << >>),
                <<ContainerPort("p", 8080, BasePort, "TCP"),
                  ContainerPort("q", 8081, 0, "TCP")>>),
     \* enabled, Dynamic, a range of one port for several ports
     RequestPod("ns1", App(Itoa(1)), << >>, "n1", FALSE,
                Config("true", <<PolicyDynamic>>, << >>, <<Itoa(BasePort)>>, << >>),
                [j \in 1..MaxBatch |-> ContainerPort(NameAt(j), 8080, 0, "TCP")]),
     \* enabled, Index, the names of TestPodMutator_ExtractIndex: ordinals 10, 5,
     \* 0 (no number after the dash) and 0 (no dash)
     RequestPod("ns1", App(Itoa(10)), << >>, "n1", FALSE, IndexConfig,
                <<ContainerPort("p", 8080, 0, "TCP")>>),
     RequestPod("ns1", <<"m", "y", "-">> \o App(Itoa(5)), << >>, "n1", FALSE, IndexConfig,
                <<ContainerPort("p", 8080, 0, "TCP")>>),
     RequestPod("ns1", App(NotANumber), << >>, "n1", FALSE, IndexConfig,
                <<ContainerPort("p", 8080, 0, "TCP")>>),
     RequestPod("ns1", NotANumber, << >>, "n1", FALSE, IndexConfig,
                <<ContainerPort("p", 8080, 0, "TCP")>>),
     \* enabled, Index, no name yet: the ordinal 3 of generateName
     RequestPod("ns1", << >>, <<"j", "o", "b", "-">> \o Itoa(3), "n1", FALSE, IndexConfig,
                <<ContainerPort("p", 8080, 0, "TCP")>>),
     \* enabled, Index, an ordinal beyond int32: 4294967297 becomes 1
     RequestPod("ns1", App(WideOrdinal), << >>, "n1", FALSE, IndexConfig,
                <<ContainerPort("p", 8080, 0, "TCP")>>),
     \* enabled, Dynamic, max-port beyond int32: 2147483648 becomes -2147483648
     RequestPod("ns1", Api, << >>, "n1", FALSE,
                Config("true", <<PolicyDynamic>>, << >>,
                       <<<<"2", "1", "4", "7", "4", "8", "3", "6", "4", "8">>>>, << >>),
                <<ContainerPort("p", 8080, 0, "TCP")>>),
     \* enabled, Dynamic, min-port beyond int32: 4294974296 becomes 7000
     RequestPod("ns1", Api, << >>, "n1", FALSE,
                Config("true", <<PolicyDynamic>>, <<WideText>>, << >>, << >>),
                <<ContainerPort("p", 8080, 0, "TCP")>>)}

\* Handle up to line 119: the pod is admitted as it is, or Allocate is called
Receive(w, pod) ==
    /\ pc[w] = "idle"
    /\ IF Skips(pod)
       THEN /\ pc' = [pc EXCEPT ![w] = "allowed"]
            /\ arg' = [arg EXCEPT ![w] = [NoArgs EXCEPT !.pod = pod]]
       ELSE /\ pc' = [pc EXCEPT ![w] = "lock"]
            /\ arg' = [arg EXCEPT ![w] = HandleArgs(pod)]
    /\ UNCHANGED <<store, allocated, mu, idx, sticky, results, err, ret>>

\* the API server names a pod that has no name after its generateName
GeneratedSuffix == <<"x", "k", "c", "d">>
Named(pod) ==
    IF pod.name = << >> THEN [pod EXCEPT !.name = pod.generateName \o GeneratedSuffix]
    ELSE pod

\* the pod the API server creates for an admission that was allowed: the pod
\* of the request, with the patch of lines 126-147 when Allocate was called
Admitted(w) ==
    Named(IF pc[w] = "allowed" THEN arg[w].pod ELSE Mutate(arg[w].pod, ret[w].results))

\* the API server stores the pod of an allowed admission
Admit(w) ==
    /\ \/ pc[w] = "allowed"
       \/ pc[w] = "done" /\ ret[w].err = "none"
    /\ ~Exists(store, Admitted(w))
    /\ store' = store \cup {Admitted(w)}
    /\ pc' = [pc EXCEPT ![w] = "stored"]
    /\ UNCHANGED <<allocated, mu, arg, idx, sticky, results, err, ret>>

\* no admission is in progress
Settled == \A w \in Workers : pc[w] \in {"idle", "stored", "denied"}

\* the second admission starts when the first is over
AfterFirst(w) == w = FirstWorker \/ pc[FirstWorker] \in {"stored", "denied"}

\* two admissions one after the other; stored pods are deleted and removed
\* while no admission is in progress
NextWebhook ==
    \/ \E w \in Workers : \E pod \in WebhookPods : AfterFirst(w) /\ Receive(w, pod)
    \/ \E w \in Workers : Acquire(w)
    \/ \E w \in Workers : Sync(w)
    \/ \E w \in Workers : SyncFail(w)
    \/ \E w \in Workers : Step(w)
    \/ \E w \in Workers : Return(w)
    \/ \E w \in Workers : Admit(w)
    \/ \E w \in Workers : Deny(w)
    \/ \E p \in store : Settled /\ MarkDeleted(p)
    \/ \E p \in store : Settled /\ Remove(p)

SpecWebhook == InitWith({{}}) /\ [][NextWebhook]_vars

\* the shape of the state
TypeOK ==
    /\ \A p, q \in store : p.ns = q.ns /\ p.name = q.name => p = q
    /\ DOMAIN allocated = AllKeys
    /\ mu \in Workers \cup {""}
    /\ \A w \in Workers :
        /\ pc[w] \in {"idle", "lock", "sync", "loop", "return", "done", "stored",
                    "denied", "allowed"}
        /\ idx[w] \in 1..(MaxBatch + 1)
        /\ arg[w].pod.ns \in Namespaces \cup {""}
        /\ \A j \in DOMAIN arg[w].reqs : arg[w].reqs[j].protocol \in Protocols
        /\ Len(results[w]) <= Len(arg[w].reqs)

----------------------------------------------------------------------------
(* Properties.                                                             *)

\* the (protocol, hostPort) pairs a call returned
Granted(w) ==
    {<<ret[w].results[j].protocol, ret[w].results[j].hostPort>> :
        j \in DOMAIN ret[w].results}

\* the call of w returned successfully
Succeeded(w) == pc[w] \in {"done", "stored"} /\ ret[w].err = "none"

SameHost(v, w) ==
    arg[v].pod.node = arg[w].pod.node /\ arg[v].pod.node # Unscheduled

\* worker w is between the acquisition of the lock and its return
InCall(w) == pc[w] \in {"sync", "loop", "return"}

\* worker w executes one iteration of the loop in this step
StepTaken(w) == pc[w] = "loop" /\ (pc'[w] = "return" \/ idx'[w] # idx[w])

\* the assignment the iteration appended
Appended(w) == results'[w][Len(results'[w])]

\* C1 (as claimed): two pods that both exist in the cluster state and were
\* admitted by successful Allocate calls for the same host never hold the
\* same hostPort under the same protocol.
C1_NoCollision ==
    \A v, w \in Workers :
        (/\ v # w
         /\ pc[v] = "stored" /\ pc[w] = "stored"
         /\ Exists(store, arg[v].pod) /\ Exists(store, arg[w].pod)
         /\ SameHost(v, w))
        => Granted(v) \cap Granted(w) = {}

\* C2 (as claimed): two calls for different pods of one host that have both
\* returned while neither pod is visible in the cluster state yet were not
\* given the same hostPort under the same protocol.
C2_InFlightDistinct ==
    \A v, w \in Workers :
        (/\ v # w
         /\ pc[v] = "done" /\ pc[w] = "done"
         /\ Succeeded(v) /\ Succeeded(w)
         /\ arg[v].pod # arg[w].pod
         /\ ~Exists(store, arg[v].pod) /\ ~Exists(store, arg[w].pod)
         /\ SameHost(v, w))
        => Granted(v) \cap Granted(w) = {}

\* C3: at most one call is between lock acquisition and return, and that
\* call is the holder of the mutex, whichever hosts the calls target.
C3_MutualExclusion ==
    /\ Cardinality({w \in Workers : InCall(w)}) <= 1
    /\ \A w \in Workers : InCall(w) <=> mu = w

\* C3 happens: one call is inside its loop while a call for another host
\* waits for the lock.
C3_Witness ==
    \E v, w \in Workers :
        /\ pc[v] = "loop" /\ pc[w] = "lock"
        /\ arg[v].pod.node # arg[w].pod.node

\* C4: a call that fails returns its error and no assignment at all, also
\* when requests of the batch were processed successfully before the failure.
C4_NoPartialResult ==
    \A w \in Workers :
        pc[w] = "done" =>
            /\ ret[w].err = err[w]
            /\ err[w] # "none" => ret[w].results = << >>
            /\ err[w] = "none" =>
                  /\ ret[w].results = results[w]
                  /\ Len(ret[w].results) = Len(arg[w].reqs)

\* C4 happens: a call failed after it had processed a request successfully.
C4_Witness ==
    \E w \in Workers :
        pc[w] = "done" /\ err[w] = "RangeExceeded" /\ Len(results[w]) >= 1

\* C5 (as claimed): after a batch that failed part-way, the next call against
\* the same cluster state returns what an engine that never ran the failed
\* batch returns.
C5_FailedBatchLeavesNoTrace ==
    LET v == FirstWorker
    IN  \A w \in Workers \ {v} :
            (/\ pc[v] = "done" /\ err[v] # "none" /\ Len(results[v]) >= 1
             /\ pc[w] = "done" /\ err[w] # "StateUnavailable")
            => ret[w] = Allocate(EmptyAllocated, store, arg[w]).ret

\* the pods named like the target of w that are terminating and recorded a
\* host port for the name of request r
OldIncarnations(pods, w, r) ==
    {p \in pods : /\ p.name = arg[w].pod.name
                  /\ p.deleting
                  /\ r.name \in DOMAIN p.ann
                  /\ Atoi(p.ann[r.name]).ok}

\* C6 (as claimed): when the cluster state holds a terminating pod of the
\* target's name that recorded portA for request name p, a Dynamic request
\* named p is assigned portA.
C6_StickyAlways ==
    \A w \in Workers :
        (pc[w] = "done" /\ err[w] # "StateUnavailable") =>
            \A j \in DOMAIN arg[w].reqs :
                \A p \in OldIncarnations(store, w, arg[w].reqs[j]) :
                    arg[w].reqs[j].policy = PolicyDynamic =>
                        /\ ret[w].err = "none"
                        /\ ret[w].results[j].hostPort
                              = Int32(Atoi(p.ann[arg[w].reqs[j].name]))

\* C6 (amended): when the scan lists, in the target's scope, a terminating pod
\* of the target's name that recorded portA for request name p, a Dynamic
\* request named p is assigned portA if portA is not in the conflict map of
\* the target host under the request's protocol when the request is reached.
C6_StickyWhenFree ==
    [][\A w \in Workers :
        LET a == arg[w]
            r == a.reqs[idx[w]]
            n == NodeNameOf(a.pod)
            old == {p \in OldIncarnations(List(store, a.pod), w, r) : InScope(p, n)}
        IN  (StepTaken(w) /\ r.policy = PolicyDynamic) =>
                \A p \in old :
                    Int32(Atoi(p.ann[r.name])) \notin allocated[Key(n, ProtocolOf(r))]
                    => /\ err'[w] = "none"
                       /\ Appended(w).hostPort = Int32(Atoi(p.ann[r.name]))
                       /\ Appended(w).name = r.name]_vars

\* C6 happens: the replacement of x received the port its terminating
\* predecessor recorded, which is not the port the scan would have found.
C6_Witness ==
    \E w \in Workers :
        /\ pc[w] = "done" /\ ret[w].err = "none"
        /\ OldX("n1") \in store
        /\ arg[w].pod.name = "x"
        /\ arg[w].reqs[1].policy = PolicyDynamic
        /\ ret[w].results[1].name = "p"
        /\ ret[w].results[1].hostPort = BasePort + 1

\* every request of the batch is an Index request
IndexBatch(a) == \A j \in DOMAIN a.reqs : a.reqs[j].policy = PolicyIndex

\* minPort + ordinal*stride + i for request j = i + 1, in int32 arithmetic
IndexFormula(a, j) == Add32(Add32(a.minPort, Mul32(a.index, a.stride)), j - 1)

\* C7 (as claimed): a batch of Index requests whose values do not exceed
\* maxPort returns minPort + ordinal*stride + i for request i, whatever the
\* cluster state.
C7_IndexAlways ==
    \A w \in Workers :
        (/\ pc[w] = "done" /\ err[w] # "StateUnavailable"
         /\ IndexBatch(arg[w])
         /\ \A j \in DOMAIN arg[w].reqs : IndexFormula(arg[w], j) <= arg[w].maxPort)
        => /\ ret[w].err = "none"
           /\ \A j \in DOMAIN arg[w].reqs :
                 ret[w].results[j].hostPort = IndexFormula(arg[w], j)

\* C7 (amended): in a batch of Index requests, a request that is reached with
\* its value minPort + ordinal*stride + i at most maxPort and not in the
\* conflict map of the target host under its protocol is assigned that value
\* and the call goes on to the next request; and a call that has assigned all
\* its requests returns these values, one for each request.
C7_IndexWhenFree ==
    [][\A w \in Workers :
        LET a == arg[w]
            i == idx[w]
        IN  /\ (/\ StepTaken(w) /\ IndexBatch(a)
                /\ IndexFormula(a, i) <= a.maxPort
                /\ IndexFormula(a, i) \notin
                      allocated[Key(NodeNameOf(a.pod), ProtocolOf(a.reqs[i]))])
               => /\ err'[w] = "none"
                  /\ Len(results'[w]) = i
                  /\ Appended(w).hostPort = IndexFormula(a, i)
                  /\ idx'[w] = i + 1
                  /\ pc'[w] = IF i = Len(a.reqs) THEN "return" ELSE "loop"
            /\ (/\ pc[w] = "return" /\ pc'[w] = "done"
                /\ IndexBatch(a) /\ err[w] = "none")
               => /\ ret'[w].err = "none"
                  /\ Len(ret'[w].results) = Len(a.reqs)
                  /\ \A j \in DOMAIN a.reqs :
                        ret'[w].results[j].hostPort = IndexFormula(a, j)]_vars

\* C7 happens: two Index requests of ordinal 1 were assigned BasePort + 1 and
\* BasePort + 2 while other pods exist in the cluster state.
C7_Witness ==
    \E w \in Workers :
        /\ pc[w] = "done" /\ ret[w].err = "none"
        /\ store # {}
        /\ IndexBatch(arg[w]) /\ arg[w].index = 1 /\ arg[w].stride = 1
        /\ Len(ret[w].results) = 2
        /\ ret[w].results[1].hostPort = BasePort + 1
        /\ ret[w].results[2].hostPort = BasePort + 2

\* the host ports a call returned
GrantedPorts(w) == {ret[w].results[j].hostPort : j \in DOMAIN ret[w].results}

\* C8 (as claimed): two successful batches of Index requests with the same
\* minPort and stride, different ordinals and at most stride requests each
\* are assigned disjoint sets of host ports.
C8_StrideNonOverlap ==
    \A v, w \in Workers :
        (/\ v # w
         /\ Succeeded(v) /\ Succeeded(w)
         /\ \A j \in DOMAIN arg[v].reqs : arg[v].reqs[j].policy = PolicyIndex
         /\ \A j \in DOMAIN arg[w].reqs : arg[w].reqs[j].policy = PolicyIndex
         /\ arg[v].minPort = arg[w].minPort
         /\ arg[v].stride = arg[w].stride
         /\ arg[v].index # arg[w].index
         /\ arg[v].stride >= Len(arg[v].reqs)
         /\ arg[v].stride >= Len(arg[w].reqs))
        => GrantedPorts(v) \cap GrantedPorts(w) = {}

\* the port a Static or Passthrough request asks for
DeclaredPort(r) ==
    IF r.policy = PolicyPassthrough THEN r.containerPort ELSE r.hostPort

\* C9: a Static or Passthrough request for port p under TCP or UDP succeeds
\* with p whenever p is not in the set of its own protocol on the target
\* host, whatever the set of the other protocol holds.
C9_ProtocolIndependence ==
    [][\A w \in Workers :
        LET a == arg[w]
            r == a.reqs[idx[w]]
            own == allocated[Key(NodeNameOf(a.pod), ProtocolOf(r))]
        IN  (/\ StepTaken(w)
             /\ r.policy \in {PolicyStatic, PolicyPassthrough}
             /\ ProtocolOf(r) \in {"TCP", "UDP"}
             /\ DeclaredPort(r) # 0
             /\ DeclaredPort(r) \notin own)
            => /\ err'[w] = "none"
               /\ Appended(w).hostPort = DeclaredPort(r)
               /\ Appended(w).protocol = ProtocolOf(r)]_vars

\* C9 happens: one call was assigned BasePort/UDP while a listed pod holds
\* BasePort/TCP, and one batch was assigned BasePort/TCP and BasePort/UDP.
C9_Witness ==
    \E v, w \in Workers :
        /\ pc[v] = "done" /\ pc[w] = "done"
        /\ BasePort \in ScanPorts(List(store, arg[v].pod), arg[v].pod,
                                  NodeNameOf(arg[v].pod), "TCP")
        /\ Granted(v) = {<<"UDP", BasePort>>}
        /\ Granted(w) = {<<"TCP", BasePort>>, <<"UDP", BasePort>>}

\* C10: a Dynamic request with no usable sticky port is assigned the smallest
\* port of [minPort, maxPort] that is not in the conflict map of the target
\* host and protocol, and fails as exhausted exactly when there is none.
C10_DynamicScan ==
    [][\A w \in Workers :
        LET a == arg[w]
            r == a.reqs[idx[w]]
            used == allocated[Key(NodeNameOf(a.pod), ProtocolOf(r))]
            free == {p \in Interval(a.minPort, a.maxPort) : p \notin used}
        IN  (/\ StepTaken(w)
             /\ r.policy = PolicyDynamic
             /\ (r.name \in DOMAIN sticky[w] => sticky[w][r.name] \in used))
            => /\ free = {} <=> err'[w] = "RangeExhausted"
               /\ free # {} =>
                    /\ err'[w] = "none"
                    /\ Appended(w).hostPort \in free
                    /\ \A q \in free : Appended(w).hostPort <= q]_vars

\* C10 happens: with BasePort and BasePort + 1 in use on the node, a Dynamic
\* request with minPort = BasePort received BasePort + 2.
C10_Witness ==
    \E w \in Workers :
        /\ pc[w] = "done" /\ ret[w].err = "none"
        /\ store = {PodZ}
        /\ arg[w].pod.node = "n1" /\ arg[w].minPort = BasePort
        /\ arg[w].reqs[1].policy = PolicyDynamic
        /\ ProtocolOf(arg[w].reqs[1]) = "TCP"
        /\ ret[w].results[1].hostPort = BasePort + 2

----------------------------------------------------------------------------
(* Properties of the policies, checked on single calls (SpecPolicy).       *)

\* the port the policy of request r computes when r is request number i
\* (zero-based) of a call with arguments a; Dynamic computes none in advance
ComputedPort(a, r, i) ==
    CASE r.policy = PolicyStatic -> r.hostPort
      [] r.policy = PolicyPassthrough -> r.containerPort
      [] r.policy = PolicyIndex -> Add32(Add32(a.minPort, Mul32(a.index, a.stride)), i)

\* request r passes the checks of its own policy for the port it computes
PolicyAccepts(a, r, i) ==
    CASE r.policy = PolicyStatic -> r.hostPort # 0
      [] r.policy = PolicyPassthrough -> TRUE
      [] r.policy = PolicyIndex -> ComputedPort(a, r, i) <= a.maxPort
      [] OTHER -> FALSE

\* C11: under Static, Passthrough and Index, a request whose computed port is
\* in the conflict map of the target host and protocol (marked by the scan or
\* by an earlier request of the batch) fails the call with a port conflict,
\* nothing is appended or marked, and the call returns no assignment; a
\* Dynamic request is never assigned a port that is in the map.
C11_UniformConflictCheck ==
    [][\A w \in Workers :
        LET a == arg[w]
            r == a.reqs[idx[w]]
            used == allocated[Key(NodeNameOf(a.pod), ProtocolOf(r))]
        IN  /\ (/\ StepTaken(w)
                /\ PolicyAccepts(a, r, idx[w] - 1)
                /\ ComputedPort(a, r, idx[w] - 1) \in used)
               => /\ err'[w] = "PortConflict"
                  /\ pc'[w] = "return"
                  /\ results'[w] = results[w]
                  /\ allocated' = allocated
            /\ (StepTaken(w) /\ r.policy = PolicyDynamic /\ err'[w] = "none")
               => Appended(w).hostPort \notin used
            /\ (pc[w] = "return" /\ pc'[w] = "done" /\ err[w] = "PortConflict")
               => ret'[w] = [err |-> "PortConflict", results |-> << >>]]_vars

\* C11 happens: a Passthrough batch failed on its second request, whose port
\* the first request of the batch had taken.
C11_Witness ==
    \E w \in Workers :
        /\ pc[w] = "done" /\ ret[w].err = "PortConflict"
        /\ arg[w].reqs[1].policy = PolicyPassthrough
        /\ Len(results[w]) = 1
        /\ results[w][1].hostPort = arg[w].reqs[2].containerPort
        /\ results[w][1].protocol = ProtocolOf(arg[w].reqs[2])

\* C12: when a call returns successfully, the conflict map of the target host
\* holds every (protocol, hostPort) pair the call assigned, and no two
\* assignments of the batch have the same protocol and the same hostPort.
C12_IntraBatchConsistency ==
    [][\A w \in Workers :
        (pc[w] = "return" /\ pc'[w] = "done" /\ ret'[w].err = "none") =>
            LET res == ret'[w].results
                n == NodeNameOf(arg[w].pod)
            IN  /\ Len(res) = Len(arg[w].reqs)
                /\ \A j \in DOMAIN res :
                      res[j].hostPort \in allocated'[Key(n, res[j].protocol)]
                /\ \A j, k \in DOMAIN res :
                      (j # k /\ res[j].protocol = res[k].protocol)
                      => res[j].hostPort # res[k].hostPort]_vars

\* C12 happens: a call returned two assignments under one protocol, both in
\* the map of the target host.
C12_Witness ==
    \E w \in Workers :
        /\ pc[w] = "done" /\ ret[w].err = "none"
        /\ Len(ret[w].results) = 2
        /\ ret[w].results[1].protocol = ret[w].results[2].protocol
        /\ ret[w].results[1].hostPort # ret[w].results[2].hostPort
        /\ \A j \in 1..2 :
              ret[w].results[j].hostPort
                  \in allocated[Key(NodeNameOf(arg[w].pod), ret[w].results[j].protocol)]

\* C13: a Static request with a non-zero declared host port that is not in the
\* conflict map of the target host and protocol is assigned exactly that port,
\* inside or outside [minPort, maxPort]; a Static request whose declared host
\* port is 0 fails the call, which returns no assignment.
C13_StaticPolicy ==
    [][\A w \in Workers :
        LET a == arg[w]
            r == a.reqs[idx[w]]
            used == allocated[Key(NodeNameOf(a.pod), ProtocolOf(r))]
        IN  /\ (/\ StepTaken(w) /\ r.policy = PolicyStatic
                /\ r.hostPort # 0 /\ r.hostPort \notin used)
               => /\ err'[w] = "none"
                  /\ Appended(w).hostPort = r.hostPort
                  /\ Appended(w).name = r.name
            /\ (StepTaken(w) /\ r.policy = PolicyStatic /\ r.hostPort = 0)
               => /\ err'[w] = "InvalidRequest"
                  /\ pc'[w] = "return"
                  /\ results'[w] = results[w]
            /\ (pc[w] = "return" /\ pc'[w] = "done" /\ err[w] = "InvalidRequest")
               => ret'[w] = [err |-> "InvalidRequest", results |-> << >>]]_vars

\* C13 happens: one call was assigned the two host ports its Static requests
\* declared, both above maxPort.
C13_Witness ==
    \E w \in Workers :
        /\ pc[w] = "done" /\ ret[w].err = "none"
        /\ Len(ret[w].results) = 2
        /\ \A j \in 1..2 :
              /\ arg[w].reqs[j].policy = PolicyStatic
              /\ ret[w].results[j].hostPort = arg[w].reqs[j].hostPort
              /\ ret[w].results[j].hostPort > arg[w].maxPort

\* C14: a Passthrough request whose containerPort is not in the conflict map
\* of the target host and protocol is assigned hostPort = containerPort,
\* whatever minPort, maxPort, ordinal, stride and the sticky ports are.
C14_PassthroughPolicy ==
    [][\A w \in Workers :
        LET a == arg[w]
            r == a.reqs[idx[w]]
            used == allocated[Key(NodeNameOf(a.pod), ProtocolOf(r))]
        IN  (/\ StepTaken(w) /\ r.policy = PolicyPassthrough
             /\ r.containerPort \notin used)
            => /\ err'[w] = "none"
               /\ Appended(w).hostPort = r.containerPort
               /\ Appended(w).containerPort = r.containerPort
               /\ Appended(w).name = r.name]_vars

\* C14 happens: a Passthrough request named p received its containerPort,
\* which lies below minPort, while the sticky ports hold another port for p.
C14_Witness ==
    \E w \in Workers :
        /\ pc[w] = "done" /\ ret[w].err = "none"
        /\ arg[w].reqs[1].policy = PolicyPassthrough
        /\ ret[w].results[1].hostPort = arg[w].reqs[1].containerPort
        /\ arg[w].reqs[1].containerPort < arg[w].minPort
        /\ arg[w].index # 0
        /\ arg[w].reqs[1].name \in DOMAIN sticky[w]
        /\ sticky[w][arg[w].reqs[1].name] # arg[w].reqs[1].containerPort

\* C15: an Index request whose value minPort + ordinal*stride + position, as
\* line 88 computes it, is greater than maxPort fails the call with the
\* range-exceeded error: nothing is appended or marked and the call returns no
\* assignment.
C15_IndexRangeError ==
    [][\A w \in Workers :
        LET a == arg[w]
            r == a.reqs[idx[w]]
        IN  /\ (/\ StepTaken(w) /\ r.policy = PolicyIndex
                /\ ComputedPort(a, r, idx[w] - 1) > a.maxPort)
               => /\ err'[w] = "RangeExceeded"
                  /\ pc'[w] = "return"
                  /\ results'[w] = results[w]
                  /\ allocated' = allocated
            /\ (pc[w] = "return" /\ pc'[w] = "done" /\ err[w] = "RangeExceeded")
               => ret'[w] = [err |-> "RangeExceeded", results |-> << >>]]_vars

\* C15 happens: the call with minPort 7000, maxPort 7999, ordinal 100 and
\* stride 10 failed with the range-exceeded error.
C15_Witness ==
    \E w \in Workers :
        /\ pc[w] = "done" /\ ret[w] = [err |-> "RangeExceeded", results |-> << >>]
        /\ arg[w].minPort = 7000 /\ arg[w].maxPort = 7999
        /\ arg[w].index = 100 /\ arg[w].stride = 10
        /\ arg[w].reqs[1].policy = PolicyIndex

\* the policies Allocate knows
KnownPolicies == {PolicyDynamic, PolicyStatic, PolicyPassthrough, PolicyIndex}

\* C16: a request whose policy is none of Dynamic, Static, Passthrough, Index
\* fails the call; nothing is appended or marked for it and the call returns
\* no assignment.
C16_UnsupportedPolicy ==
    [][\A w \in Workers :
        LET r == arg[w].reqs[idx[w]]
        IN  /\ (StepTaken(w) /\ r.policy \notin KnownPolicies)
               => /\ err'[w] = "UnsupportedPolicy"
                  /\ pc'[w] = "return"
                  /\ results'[w] = results[w]
                  /\ allocated' = allocated
            /\ (pc[w] = "return" /\ pc'[w] = "done" /\ err[w] = "UnsupportedPolicy")
               => ret'[w] = [err |-> "UnsupportedPolicy", results |-> << >>]]_vars

\* C16 happens: a call failed on a request with an empty policy while ports
\* of its range were free, and the map of its host holds no port of the range.
C16_Witness ==
    \E w \in Workers :
        /\ pc[w] = "done" /\ ret[w].err = "UnsupportedPolicy"
        /\ arg[w].reqs[1].policy = ""
        /\ store = {}
        /\ \A k \in AllKeys : allocated[k] = {}

----------------------------------------------------------------------------
(* Properties of sequences of calls (SpecHistory).                         *)

\* the scan of the call of w fails in this step
ScanFails(w) == pc[w] = "sync" /\ err'[w] = "StateUnavailable"

\* C17: when the List fails, the call goes straight to its return with the
\* scan error and no assignment: no request is dispatched, appended or marked
\* and the scan is not run again in that call; and every call that follows
\* against a working store returns what it would have returned had the failed
\* call not been made.
C17_ScanFailure ==
    [][\A w \in Workers :
        /\ ScanFails(w)
           => /\ pc'[w] = "return"
              /\ results'[w] = << >> /\ idx'[w] = 1
              /\ \A k \in AllKeys : allocated'[k] \subseteq allocated[k]
              /\ \A b \in HistoryInputs :
                    Allocate(allocated', store', b).ret = Allocate(allocated, store, b).ret
        /\ (pc[w] = "return" /\ pc'[w] = "done" /\ err[w] = "StateUnavailable")
           => ret'[w] = [err |-> "StateUnavailable", results |-> << >>]
        /\ (pc[w] # "sync" /\ pc'[w] = "sync") => pc[w] = "lock"
        /\ (pc[w] # "lock" /\ pc'[w] = "lock") => pc[w] = "idle"]_vars

\* C17 happens: the first call failed in its scan and returned the error and
\* no assignment; the second call, for the same host, was then assigned a port.
C17_Witness ==
    \E v, w \in Workers :
        /\ v # w
        /\ pc[v] = "done" /\ ret[v] = [err |-> "StateUnavailable", results |-> << >>]
        /\ results[v] = << >>
        /\ pc[w] = "done" /\ ret[w].err = "none" /\ Len(ret[w].results) >= 1
        /\ NodeNameOf(arg[v].pod) = NodeNameOf(arg[w].pod)
        /\ ret[w] = Allocate(EmptyAllocated, store, arg[w]).ret

\* the call of w has just finished its scan
Scanned(w) == pc[w] = "loop" /\ idx[w] = 1

\* the call of v asked for no port under protocol proto
AskedNothingUnder(v, proto) ==
    \A j \in DOMAIN arg[v].reqs : ProtocolOf(arg[v].reqs[j]) # proto

\* C18 (as claimed): once the pod that owned a host port is removed from the
\* cluster state, the next call for that host treats the port as free: right
\* after its scan, the conflict map of the target host holds, under every
\* protocol the earlier call asked nothing for, only ports that pods of the
\* current cluster state declare.
C18_ImplicitReclamation ==
    \A v, w \in Workers :
        (v # w /\ Scanned(w)) =>
            \A proto \in ProtoKeys :
                AskedNothingUnder(v, proto) =>
                    allocated[Key(NodeNameOf(arg[w].pod), proto)]
                        \subseteq ScanPorts(List(store, arg[w].pod), arg[w].pod,
                                            NodeNameOf(arg[w].pod), proto)

\* C19 (as claimed): a call returns what a new engine returns for the same
\* arguments against the same cluster state, whatever calls the engine served
\* before.
C19_HistoryIndependence ==
    \A w \in Workers :
        (pc[w] = "return" /\ err[w] # "StateUnavailable") =>
            Returned(err[w], results[w]) = Allocate(EmptyAllocated, store, arg[w]).ret

----------------------------------------------------------------------------
(* Properties of the admission handler (Spec).                             *)

\* C20: when Allocate returns an error the handler denies the admission and
\* returns no patch; a pod is stored only after a call that succeeded, and it
\* then carries a host port for every request of the batch.
C20_DeniedOnFailure ==
    \A w \in Workers :
        /\ (pc[w] \in {"done", "stored", "denied"} /\ ret[w].err # "none")
           => /\ Response(arg[w].pod, arg[w].reqs, ret[w])
                    = [allowed |-> FALSE, patch |-> {}]
              /\ pc[w] # "stored"
        /\ pc[w] = "denied" => ret[w].err # "none"
        /\ pc[w] = "stored"
           => \A p \in Response(arg[w].pod, arg[w].reqs, ret[w]).patch :
                 /\ Len(p.ports) = Len(arg[w].reqs)
                 /\ \A j \in DOMAIN p.ports :
                       p.ports[j].hostPort = ret[w].results[j].hostPort

\* C20 happens: an admission was denied after its call had processed one
\* request successfully and failed on the next, and no pod of that name was
\* stored.
C20_Witness ==
    \E w \in Workers :
        /\ pc[w] = "denied"
        /\ err[w] = "RangeExhausted" /\ Len(results[w]) >= 1
        /\ ret[w].results = << >>
        /\ ~Exists(store, arg[w].pod)

----------------------------------------------------------------------------
(* Properties of the admission handler in front of the engine              *)
(* (SpecWebhook).                                                          *)

\* the pod does not carry hostport.io/enabled = "true", or none of its
\* container ports has containerPort # 0 with hostPort = 0
NothingToAllocate(pod) ==
    \/ pod.cfg.enabled # "true"
    \/ \A j \in DOMAIN pod.ports :
          ~(pod.ports[j].containerPort # 0 /\ pod.ports[j].hostPort = 0)

\* the admission of worker w has got its pod
Received(w) == pc[w] # "idle"

\* C21: for a pod that is not enabled by exactly "true", or that has no
\* container port with containerPort # 0 and hostPort = 0, the handler admits
\* the pod without a call of Allocate: the admission is allowed at once, and
\* no call starts or returns for it.
C21_SkipsAllocate ==
    \A w \in Workers :
        (Received(w) /\ NothingToAllocate(arg[w].pod)) =>
            /\ pc[w] \in {"allowed", "stored"}
            /\ ret[w] = NoReturn
            /\ mu # w

\* C21 happens: an enabled pod whose ports all declare a host port or have no
\* containerPort was stored as it came, and so was a pod whose annotation is
\* "True", while the conflict maps are still empty.
C21_Witness ==
    /\ allocated = EmptyAllocated
    /\ \E v, w \in Workers :
          /\ pc[v] = "stored" /\ pc[w] = "stored"
          /\ arg[v].pod.cfg.enabled = "true" /\ arg[v].pod.ports # << >>
          /\ arg[w].pod.cfg.enabled = "True"
          /\ {arg[v].pod, arg[w].pod} \subseteq store

\* C22 (as claimed): every pod that carries hostport.io/enabled = "true" and
\* was admitted has hostNetwork set, also when none of its ports needed a
\* host port.
C22_HostNetworkWhenEnabled ==
    \A p \in store : p.cfg.enabled = "true" => p.hostNetwork

----------------------------------------------------------------------------
(* Properties of the scan (SpecHistory).                                   *)

\* the host ports q that a pod p declares, non-zero, under protocol proto
\* (a port without protocol counts as TCP)
Declares(p, q, proto) ==
    \E j \in DOMAIN p.ports :
        /\ p.ports[j].hostPort = q /\ q # 0
        /\ (IF p.ports[j].protocol = "" THEN "TCP" ELSE p.ports[j].protocol) = proto

\* p has the target's name and is marked terminating
SameNameTerminating(p, target) == p.name = target.name /\ p.deleting

\* the ports a pod of the model can declare or a call can assign
PortSpace == 0..(BasePort + 2000)

\* C23 (as claimed): right after the scan of a call whose target is scheduled
\* to host H, the conflict map of H under every protocol P holds exactly the
\* non-zero host ports that the listed pods on H declare under P, not counting
\* a pod of the target's name that is terminating.
C23_ScheduledScanResult ==
    \A w \in Workers :
        (Scanned(w) /\ arg[w].pod.node # Unscheduled) =>
            \A proto \in ProtoKeys :
                allocated[Key(arg[w].pod.node, proto)]
                    = {q \in PortSpace :
                          \E p \in store :
                              /\ p.ns = arg[w].pod.ns
                              /\ p.node = arg[w].pod.node
                              /\ ~SameNameTerminating(p, arg[w].pod)
                              /\ Declares(p, q, proto)}

----------------------------------------------------------------------------
(* Properties of the scan for a target without a node (SpecPolicy).        *)

\* C24: when the target has no node, the conflict map the call uses (the map
\* of the node name "pending") contains, right after the scan, the non-zero
\* host ports of every pod of the target's namespace, whatever its node, except
\* a pod of the target's name that is terminating; and the sticky table holds
\* the recorded ports of a pod of the target's name in the namespace, whatever
\* its node.
C24_UnscheduledScan ==
    \A w \in Workers :
        (Scanned(w) /\ arg[w].pod.node = Unscheduled) =>
            /\ \A p \in store : \A proto \in ProtoKeys : \A q \in PortSpace :
                  (/\ p.ns = arg[w].pod.ns
                   /\ ~SameNameTerminating(p, arg[w].pod)
                   /\ Declares(p, q, proto))
                  => q \in allocated[Key(Pending, proto)]
            /\ \A p \in store :
                  (p.ns = arg[w].pod.ns /\ p.name = arg[w].pod.name) =>
                      \A n \in DOMAIN p.ann :
                          Atoi(p.ann[n]).ok =>
                              /\ n \in DOMAIN sticky[w]
                              /\ sticky[w][n] = Int32(Atoi(p.ann[n]))

\* C24 happens: a call for the unscheduled replacement of x has scanned a
\* cluster state with pod z on n1 and the terminating x on n2; the map of
\* "pending" holds the two TCP ports of z and the sticky table holds the port
\* the old x recorded for p.
C24_Witness ==
    \E w \in Workers :
        /\ Scanned(w) /\ arg[w].pod.node = Unscheduled
        /\ store = {PodZ, OldX("n2")}
        /\ allocated[Key(Pending, "TCP")] = {BasePort, BasePort + 1}
        /\ "p" \in DOMAIN sticky[w] /\ sticky[w]["p"] = BasePort + 1

----------------------------------------------------------------------------
(* Properties of single policies, continued (SpecPolicy).                  *)

\* C25 (as claimed): every host port assigned under the Index policy lies in
\* [minPort, maxPort], whatever int32 values minPort, maxPort, ordinal and
\* stride have.
C25_IndexWithinRange ==
    \A w \in Workers :
        \A j \in DOMAIN results[w] :
            results[w][j].policy = PolicyIndex =>
                /\ arg[w].minPort <= results[w][j].hostPort
                /\ results[w][j].hostPort <= arg[w].maxPort

\* C26: a Dynamic request whose name has an entry in the sticky table is
\* assigned the recorded port exactly when that port is not in the conflict
\* map of the target host and the request's protocol when the request is
\* reached; otherwise it gets the lowest free port of the range, or the call
\* fails because the range is exhausted.  A recorded port that is in use is
\* neither assigned nor reported as a port conflict.
C26_StickyIfFree ==
    [][\A w \in Workers :
        LET a == arg[w]
            r == a.reqs[idx[w]]
            used == allocated[Key(NodeNameOf(a.pod), ProtocolOf(r))]
            free == {p \in Interval(a.minPort, a.maxPort) : p \notin used}
            recorded == sticky[w][r.name]
        IN  (/\ StepTaken(w)
             /\ r.policy = PolicyDynamic
             /\ r.name \in DOMAIN sticky[w])
            => /\ err'[w] # "PortConflict"
               /\ recorded \notin used
                  => err'[w] = "none" /\ Appended(w).hostPort = recorded
               /\ recorded \in used
                  => /\ free = {} <=> err'[w] = "RangeExhausted"
                     /\ free # {} =>
                          /\ err'[w] = "none"
                          /\ Appended(w).hostPort # recorded
                          /\ Appended(w).hostPort \in free
                          /\ \A q \in free : Appended(w).hostPort <= q]_vars

\* C26 happens: pod x is alive on n1 and holds the port it recorded for p, and
\* a call for a pod of that name has given the Dynamic request p the lowest
\* free port of the range instead.
C26_Witness ==
    \E w \in Workers :
        /\ pc[w] = "done" /\ ret[w].err = "none"
        /\ store = {LiveX}
        /\ arg[w].reqs[1].policy = PolicyDynamic
        /\ "p" \in DOMAIN sticky[w] /\ sticky[w]["p"] = BasePort + 1
        /\ arg[w].reqs[1].name = "p"
        /\ ret[w].results[1].hostPort = BasePort

----------------------------------------------------------------------------
(* Protocol defaulting (SpecHistory).                                      *)

\* C27: a request without protocol is checked against and marked in the TCP
\* set of the target host and its assignment carries protocol TCP, so a Static
\* request without protocol fails with a port conflict exactly when its port
\* is in the TCP set, whatever the UDP set holds; and right after the scan the
\* TCP set holds every non-zero host port that a counted pod declares without
\* protocol.
C27_ProtocolDefault ==
    [][\A w \in Workers :
        LET a == arg[w]
            r == a.reqs[idx[w]]
            tcpKey == Key(NodeNameOf(a.pod), "TCP")
        IN  /\ (StepTaken(w) /\ r.protocol = "")
               => /\ err'[w] = "none"
                     => /\ Appended(w).protocol = "TCP"
                        /\ Appended(w).hostPort \notin allocated[tcpKey]
                        /\ allocated' = [allocated EXCEPT
                                            ![tcpKey] = @ \cup {Appended(w).hostPort}]
                  /\ (r.policy = PolicyStatic /\ r.hostPort # 0)
                     => (err'[w] = "PortConflict" <=> r.hostPort \in allocated[tcpKey])
            /\ Scanned(w)
               => \A p \in store : \A j \in DOMAIN p.ports :
                     (/\ p.ns = a.pod.ns
                      /\ (a.pod.node = Unscheduled \/ p.node = a.pod.node)
                      /\ ~SameNameTerminating(p, a.pod)
                      /\ p.ports[j].protocol = "" /\ p.ports[j].hostPort # 0)
                     => p.ports[j].hostPort \in allocated[tcpKey]]_vars

\* C27 happens: pod s holds BasePort on n1 under UDP, and a Static request for
\* BasePort without protocol was assigned BasePort with protocol TCP on n1.
C27_Witness ==
    \E w \in Workers :
        /\ pc[w] = "done" /\ ret[w].err = "none"
        /\ store = {PodS} /\ arg[w].pod.node = "n1"
        /\ BasePort \in allocated[Key("n1", "UDP")]
        /\ arg[w].reqs[1].protocol = "" /\ arg[w].reqs[1].policy = PolicyStatic
        /\ ret[w].results[1].hostPort = BasePort
        /\ ret[w].results[1].protocol = "TCP"

----------------------------------------------------------------------------
(* Properties of the patch (SpecWebhook).                                  *)

\* the admission of v was allowed after a successful call and p is the pod
\* that was stored for it, terminating or not
StoredBy(v, p) ==
    /\ pc[v] = "stored" /\ ret[v].results # << >>
    /\ p \in store
    /\ [p EXCEPT !.deleting = FALSE] = Admitted(v)

\* C28 (as claimed): for every assignment (name, hostPort) of a successful
\* call the admitted pod carries the annotation allocated-<name> = hostPort,
\* and a later call for a target of the same name, once it has scanned that
\* pod, has a sticky table that maps every such name to that hostPort.
C28_WriteBackRoundTrip ==
    \A v \in Workers : \A p \in store :
        StoredBy(v, p) =>
            \A j \in DOMAIN ret[v].results :
                LET name == ret[v].results[j].name
                    hostPort == ret[v].results[j].hostPort
                IN  /\ name \in DOMAIN p.ann /\ p.ann[name] = Itoa(hostPort)
                    /\ \A w \in Workers :
                          (/\ w # v /\ Scanned(w)
                           /\ arg[w].pod.ns = p.ns /\ arg[w].pod.name = p.name
                           /\ arg[w].pod.node = p.node)
                          => /\ name \in DOMAIN sticky[w]
                             /\ sticky[w][name] = hostPort

\* port j of pod needs a host port: containerPort # 0 and hostPort = 0
NeededAllocation(pod, j) == pod.ports[j].containerPort # 0 /\ pod.ports[j].hostPort = 0

\* the number, within the batch, of the request made for port j of pod
RequestOf(pod, j) == Cardinality({i \in 1..j : NeededAllocation(pod, i)})

\* the protocol a container port without protocol has
PortProtocol(port) == IF port.protocol = "" THEN "TCP" ELSE port.protocol

\* C29 (as claimed): after a successful mutation every container port that
\* needed allocation carries the hostPort of its own assignment, with
\* containerPort rewritten to it, the other ports are unchanged, and no two
\* ports of the admitted pod with the same protocol share a non-zero hostPort.
C29_PatchCorrelation ==
    \A w \in Workers :
        (pc[w] = "done" /\ ret[w].err = "none") =>
            LET pod == arg[w].pod
                out == Admitted(w)
            IN  /\ \A j \in DOMAIN pod.ports :
                      IF NeededAllocation(pod, j)
                      THEN /\ out.ports[j].hostPort
                                 = ret[w].results[RequestOf(pod, j)].hostPort
                           /\ out.ports[j].containerPort = out.ports[j].hostPort
                      ELSE out.ports[j] = pod.ports[j]
                /\ \A j, k \in DOMAIN out.ports :
                      (/\ j # k
                       /\ PortProtocol(out.ports[j]) = PortProtocol(out.ports[k])
                       /\ out.ports[j].hostPort # 0)
                      => out.ports[j].hostPort # out.ports[k].hostPort

----------------------------------------------------------------------------
(* Order of the phases of one call (SpecHistory).                          *)

\* the order of the phases of one call, the sets of the protocols protos being
\* the part of the conflict map that the scan rebuilds: these sets hold what
\* the scan found before the first request is dispatched; the requests are
\* then processed one at a time in batch order, each being checked against
\* the map before its port is marked; the first failing request ends the loop
\* with nothing marked or appended for it and no later request dispatched; and
\* the call returns every assignment after the last request, or none after a
\* failure.
PhaseOrdering(protos) ==
    \A w \in Workers :
        LET a == arg[w]
            i == idx[w]
            nodeName == NodeNameOf(a.pod)
        IN  /\ (pc[w] # "loop" /\ pc'[w] = "loop")
               => /\ pc[w] = "sync"
                  /\ idx'[w] = 1 /\ results'[w] = << >>
                  /\ \A proto \in protos :
                        allocated'[Key(nodeName, proto)]
                            = ScanPorts(List(store, a.pod), a.pod, nodeName, proto)
            /\ (pc[w] # "return" /\ pc'[w] = "return") => pc[w] \in {"sync", "loop"}
            /\ (StepTaken(w) /\ err'[w] = "none")
               => /\ idx'[w] = i + 1 /\ Len(results'[w]) = i
                  /\ Appended(w).name = a.reqs[i].name
                  /\ \E k \in AllKeys :
                        /\ k[1] = nodeName
                        /\ Appended(w).hostPort \notin allocated[k]
                        /\ allocated' = [allocated EXCEPT
                                            ![k] = @ \cup {Appended(w).hostPort}]
                  /\ pc'[w] = IF i = Len(a.reqs) THEN "return" ELSE "loop"
            /\ (StepTaken(w) /\ err'[w] # "none")
               => /\ pc'[w] = "return"
                  /\ idx'[w] = i /\ results'[w] = results[w]
                  /\ allocated' = allocated
            /\ pc[w] = "return"
               => /\ allocated' = allocated /\ results'[w] = results[w]
                  /\ err[w] = "none" => Len(results[w]) = Len(a.reqs)
                  /\ pc'[w] = "done"
                     => ret'[w] = IF err[w] = "none"
                                  THEN [err |-> "none", results |-> results[w]]
                                  ELSE [err |-> err[w], results |-> << >>]

\* C30 (as claimed): within one call the conflict map of the target host is
\* cleared and rebuilt from the scan, under every protocol, before the first
\* request is dispatched; the requests are then processed one at a time in
\* batch order, each one's check preceding its mark; and the call ends either
\* committed, every request marked and returned, or aborted at the first
\* failing request, no later request being dispatched or marked.
C30_PhaseOrdering == [][PhaseOrdering(ProtoKeys)]_vars

\* the same order with the rebuild stated for the TCP and UDP sets, the two
\* that lines 137-138 clear
PhaseOrderingTcpUdp == [][PhaseOrdering({"TCP", "UDP"})]_vars

\* the order of the phases is exercised: a call with two requests against pod z
\* on n1 failed on its first request; the second request was never reached, the map holds what the
\* scan put there, and the call returned the error and no assignment.
AbortedAtFirstRequest ==
    \E w \in Workers :
        /\ pc[w] = "done" /\ ret[w] = [err |-> "PortConflict", results |-> << >>]
        /\ Len(arg[w].reqs) = 2 /\ idx[w] = 1 /\ results[w] = << >>
        /\ store = {PodZ} /\ arg[w].pod.node = "n1"
        /\ allocated[Key("n1", "TCP")] = {BasePort, BasePort + 1}

----------------------------------------------------------------------------
(* The range of Dynamic assignments (SpecPolicy).                          *)

\* C31 (as claimed): every host port assigned under the Dynamic policy lies in
\* [minPort, maxPort], also when it is reused from the sticky table of an
\* earlier incarnation that was admitted with another range.
C31_DynamicWithinRange ==
    \A w \in Workers :
        \A j \in DOMAIN results[w] :
            results[w][j].policy = PolicyDynamic =>
                /\ arg[w].minPort <= results[w][j].hostPort
                /\ results[w][j].hostPort <= arg[w].maxPort

----------------------------------------------------------------------------
(* Lock release and progress (SpecLive).                                   *)

\* C32: the mutex is held only by a call that is between Lock and its return,
\* so every exit of a call (success, failed scan, failed request) has released
\* it; and under fair scheduling every call that was issued eventually
\* returns, with the mutex no longer held by it.
C32_LockReleaseAndProgress ==
    /\ [](\A w \in Workers : mu = w => InCall(w))
    /\ \A w \in Workers : (pc[w] = "lock") ~> (pc[w] = "done" /\ mu # w)

\* C32 happens: two calls issued concurrently have both returned, one after
\* a failed scan and one after a request that found no free port, and the
\* mutex is free.
C32_Witness ==
    \E v, w \in Workers :
        /\ pc[v] = "done" /\ pc[w] = "done"
        /\ ret[v].err = "StateUnavailable"
        /\ ret[w].err = "RangeExhausted"
        /\ mu = ""

----------------------------------------------------------------------------
(* Frame of a call (SpecHistory).                                          *)

\* worker w executes a step of its Allocate call
EngineStep(w) ==
    /\ pc[w] \in {"lock", "sync", "loop", "return"}
    /\ pc'[w] # pc[w] \/ idx'[w] # idx[w]

\* the node name under which the call of w keeps its conflict map
MapNodeOf(w) == IF arg[w].pod.node = "" THEN "pending" ELSE arg[w].pod.node

\* C33: a step of an Allocate call changes no entry of the conflict map other
\* than those keyed by the target's node ("pending" when the target has no
\* node), and it leaves the cluster state as it is.
C33_Frame ==
    [][\A w \in Workers :
        EngineStep(w) =>
            /\ store' = store
            /\ \A k \in AllKeys : k[1] # MapNodeOf(w) => allocated'[k] = allocated[k]]_vars

\* C33 happens: a call for a target on n1 and a call for a target without node
\* have both succeeded; the maps of n1 and of "pending" both hold ports and the
\* map of n2 holds none.
C33_Witness ==
    \E v, w \in Workers :
        /\ pc[v] = "done" /\ ret[v].err = "none" /\ arg[v].pod.node = "n1"
        /\ pc[w] = "done" /\ ret[w].err = "none" /\ arg[w].pod.node = Unscheduled
        /\ allocated[Key("n1", "TCP")] # {}
        /\ allocated[Key(Pending, "TCP")] # {}
        /\ \A proto \in ProtoKeys : allocated[Key("n2", proto)] = {}

----------------------------------------------------------------------------
(* The Static policy through the handler (SpecWebhook).                    *)

\* C34: the admission of an enabled pod whose policy annotation is "Static"
\* and that has at least one port needing a host port is never allowed: the
\* pod is not admitted as it is and not stored, and the call of Allocate made
\* for it returns an error and no assignment.
C34_StaticDenied ==
    \A w \in Workers :
        (/\ Received(w)
         /\ arg[w].pod.cfg.enabled = "true"
         /\ arg[w].pod.cfg.policy = <<"Static">>
         /\ \E j \in DOMAIN arg[w].pod.ports : NeededAllocation(arg[w].pod, j))
        => /\ pc[w] \notin {"allowed", "stored"}
           /\ pc[w] \in {"done", "denied"}
              => ret[w].err # "none" /\ ret[w].results = << >>

\* C34 happens: a pod with policy "Static", one port that declares its host
\* port and one that needs one was denied because the request made for the
\* second port carries no host port.
C34_Witness ==
    \E w \in Workers :
        /\ pc[w] = "denied" /\ ret[w].err = "InvalidRequest"
        /\ arg[w].pod.cfg.policy = <<"Static">>
        /\ Len(arg[w].pod.ports) = 2 /\ arg[w].pod.ports[1].hostPort = BasePort
        /\ Len(arg[w].reqs) = 1 /\ arg[w].reqs[1].hostPort = 0

====
